---- MODULE Spec2Model ----
(***************************************************************************)
(* A model of mimic, a one-directional directory synchronizer.             *)
(*                                                                         *)
(* Paths are sequences of segments (<<"d","a">> is d/a).  A file's content *)
(* is a sequence of units; a unit is a record, [byte |-> n] for a raw byte *)
(* and one record per top-level JSON field for a serialized SyncState.     *)
(* Times are in milliseconds.                                              *)
(***************************************************************************)
EXTENDS Integers, Sequences, FiniteSets, TLC

VARIABLES
    src,            \* the source tree: path -> node
    dst,            \* the destination tree: path -> node (state file included)
    clock,          \* wall clock, ms
    pc,             \* position of the running operation
    state,          \* runSync: the *SyncState LoadState returned (or NoState)
    sourceEntries,  \* runSync: the snapshot ScanSource returned
    actions,        \* runSync: the list CompareStates returned
    actions2,       \* the list a second CompareStates call on the same inputs returned
    idx,            \* ExecuteActions: index of the next action of the range loop
    attempted,      \* ExecuteActions: indexes of the actions dispatched so far
    err,            \* the error the running operation returned ("nil" if none)
    saved,          \* SaveState: the serialized data being written
    loaded,         \* the result of the last LoadState call
    prevFile,       \* content of the canonical state file when SaveState was entered
    runs,           \* number of runs started
    edits,          \* number of edits made to the source tree
    faults,         \* number of injected filesystem failures
    chunkSize,      \* cfg.ChunkSize, the chunkSize argument of CopyFile
    transport,      \* copyFileBatching: the buffered channel of chunks
    closed,         \* copyFileBatching: transport has been closed
    errChan,        \* copyFileBatching: the one-slot error channel
    rpc,            \* copyFileBatching: position of the reader goroutine
    bufCopy,        \* reader goroutine: the chunk it is about to send
    data,           \* consumer loop: the chunk it has received
    roff,           \* read offset of srcFile
    woff,           \* write offset of dstFile
    stack,          \* the callers of the running operation, outermost first
    after,          \* what the test driver had just done when it called LoadState
    dst0,           \* the destination tree when the running operation was called
    srcDir,         \* the source directory argument ("" when empty)
    dstDir,         \* the destination directory argument ("" when empty)
    dryRun,         \* cfg.DryRun
    checksum,       \* cfg.Checksum
    attempt,        \* retryableOpWithResult: the loop variable
    lastErr,        \* retryableOpWithResult: lastErr
    probes,         \* retryableOpWithResult: what each invocation of op returned
    sleeps,         \* retryableOpWithResult: the durations slept, ms
    operation,      \* retryableOpWithResult: the operation argument
    walk,           \* filepath.WalkDir: the paths still to visit, in lexical order
    visited,        \* filepath.WalkDir: the paths the callback was called for
    entries,        \* ScanSource: the map under construction
    walkErrIn,      \* ScanSource: the error WalkDir hands to the callback
    initialInfo,    \* generateChecksum: mtime and size at the first stat
    currentInfo,    \* generateChecksum: mtime and size at the second stat
    hash,           \* generateChecksum: the bytes written to the hash so far
    checksumBytes,  \* generateChecksum: the value returned (NoSum for nil)
    target,         \* the name argument of CreateDir or DeletePath
    exclPath,        \* shouldExclude: the relPath argument, a sequence of characters
    matchers,       \* shouldExclude: the matchers argument
    excluded        \* shouldExclude: the value returned ("none" before the call)

runVars  == <<state, sourceEntries, actions, actions2, idx, attempted, saved,
              loaded, prevFile, runs, edits, stack, after>>
copyVars == <<transport, closed, errChan, rpc, bufCopy, data, roff, woff>>
argVars   == <<srcDir, dstDir, dryRun, checksum>>
retryVars == <<attempt, lastErr, probes, sleeps, operation>>
scanVars  == <<walk, visited, entries, walkErrIn>>
callVars  == <<initialInfo, currentInfo, hash, checksumBytes, target>>
exclVars  == <<exclPath, matchers, excluded>>

vars == <<src, dst, dst0, clock, pc, err, faults, chunkSize, runVars, copyVars,
          argVars, retryVars, scanVars, callVars, exclVars>>

-----------------------------------------------------------------------------
(* Generic helpers *)

Range(s) == {s[i] : i \in DOMAIN s}

\* all enumerations of the finite set S without repetition: the orders in
\* which a Go `range` over a map with key set S may visit the keys
Orders(S) == {o \in [1..Cardinality(S) -> S] : Range(o) = S}

-----------------------------------------------------------------------------
(* Paths *)

stateFile == ".sync_state"

P_d     == <<"d">>
P_da    == <<"d", "a">>
P_bad   == <<"b_xFF">>          \* a file name that is not valid UTF-8
P_badU  == <<"b_uFFFD">>        \* the same name with the bad byte replaced by U+FFFD
P_dds   == <<"d", ".DS_Store">>
P_ddsx  == <<"d", ".DS_Store", "x">>
P_state == <<stateFile>>
P_tmp   == <<".sync_state.tmp">>

-----------------------------------------------------------------------------
(* Data model: syncer.go *)

ActionNone   == 0
ActionCreate == 1
ActionUpdate == 2
ActionDelete == 3

timeDiffThreshold == 1000

ZeroEntryInfo ==
    [RelativePath |-> <<>>, Mtime |-> 0, Size |-> 0, IsDir |-> FALSE, Checksum |-> <<>>]

SyncAction(type, path, info) ==
    [Type |-> type, RelativePath |-> path, SourceInfo |-> info]

-----------------------------------------------------------------------------
(* CompareStates *)

\* the body of the first loop, for one path of sourceScan
CompareEntryMutNoSize(path, sourceScan, loadedStateEntries) ==
    IF path \notin DOMAIN loadedStateEntries
    THEN SyncAction(ActionCreate, path, sourceScan[path])
    ELSE LET source   == sourceScan[path]
             entry    == loadedStateEntries[path]
             timeDiff == source.Mtime - entry.Mtime
             sameTime == timeDiff < timeDiffThreshold /\ timeDiff > -timeDiffThreshold
         IN  IF sameTime
             THEN SyncAction(ActionNone, path, ZeroEntryInfo)
             ELSE SyncAction(ActionUpdate, path, source)

CompareEntry(path, sourceScan, loadedStateEntries) ==
    IF path \notin DOMAIN loadedStateEntries
    THEN SyncAction(ActionCreate, path, sourceScan[path])
    ELSE LET source   == sourceScan[path]
             entry    == loadedStateEntries[path]
             timeDiff == source.Mtime - entry.Mtime
             sameTime == timeDiff < timeDiffThreshold /\ timeDiff > -timeDiffThreshold
             sameSize == source.Size = entry.Size
         IN  IF sameTime /\ sameSize
             THEN SyncAction(ActionNone, path, ZeroEntryInfo)
             ELSE SyncAction(ActionUpdate, path, source)

\* the second loop: one delete per path of loadedStateEntries absent from sourceScan
CompareDeletesMutAll(sourceScan, loadedOrder) ==
    [i \in 1..Len(loadedOrder) |-> SyncAction(ActionDelete, loadedOrder[i], ZeroEntryInfo)]

CompareDeletes(sourceScan, loadedOrder) ==
    LET missing(p) == p \notin DOMAIN sourceScan
        kept       == SelectSeq(loadedOrder, missing)
    IN  [i \in 1..Len(kept) |-> SyncAction(ActionDelete, kept[i], ZeroEntryInfo)]

\* sourceOrder and loadedOrder are the orders in which the two `range` loops
\* visit the keys of the two maps; Go leaves them unspecified
CompareStates(sourceScan, loadedStateEntries, sourceOrder, loadedOrder) ==
    [i \in 1..Len(sourceOrder) |->
        CompareEntry(sourceOrder[i], sourceScan, loadedStateEntries)]
    \o CompareDeletes(sourceScan, loadedOrder)

-----------------------------------------------------------------------------
(* Harness for CompareStates as a pure function *)

CmpPaths        == {P_d, P_da}
CmpSourceMtimes == {0, 999, 1000, 2500}
CmpLoadedMtimes == {0, 1000}
CmpSizes        == {1, 2}

\* the content of a file of n bytes
Bytes(n) == [i \in 1..n |-> [byte |-> i]]

\* a file's checksum is the hash of its content; a directory has none
CmpEntries(path, mtimes) ==
    {[RelativePath |-> path, Mtime |-> m, Size |-> s, IsDir |-> d,
      Checksum |-> IF d THEN <<>> ELSE <<"xxhash", Bytes(s)>>] :
        m \in mtimes, s \in CmpSizes, d \in BOOLEAN}

CmpSnapshots(mtimes) ==
    UNION {{f \in [D -> UNION {CmpEntries(p, mtimes) : p \in D}] :
                \A p \in D : f[p].RelativePath = p} : D \in SUBSET CmpPaths}

NoState == [Version |-> -1]

\* no retried operation in progress
RetryIdle ==
    /\ attempt = 0 /\ lastErr = "nil" /\ probes = <<>> /\ sleeps = <<>>
    /\ operation = "none"

\* no scan in progress, no call of shouldExclude under test
ScanIdle ==
    /\ walk = <<>> /\ visited = <<>> /\ entries = <<>> /\ walkErrIn = "nil"
    /\ exclPath = <<>> /\ matchers = <<>> /\ excluded = "none"

\* the nil slice generateChecksum returns with an error
NoSum == <<>>

\* what a FileInfo holds before any os.Stat
NoInfo == [mtime |-> -1, size |-> -1]

\* no call of generateChecksum, CreateDir or DeletePath under test
CallIdle ==
    /\ initialInfo = NoInfo /\ currentInfo = NoInfo /\ hash = <<>>
    /\ checksumBytes = NoSum /\ target = <<>>

\* the arguments of main: two directories, no option set
MainArgs == srcDir = "src" /\ dstDir = "dst" /\ dryRun = FALSE /\ checksum = FALSE

\* no chunked copy in progress
CopyIdle ==
    /\ transport = <<>> /\ closed = FALSE /\ errChan = <<>> /\ rpc = "none"
    /\ bufCopy = <<>> /\ data = <<>> /\ roff = 0 /\ woff = 0

InitCompare ==
    /\ sourceEntries \in CmpSnapshots(CmpSourceMtimes)
    /\ \E e \in CmpSnapshots(CmpLoadedMtimes) :
          state = [Version |-> 1, LastSync |-> 0, Entries |-> e]
    /\ pc = "compare"
    /\ actions = <<>> /\ actions2 = <<>>
    /\ src = <<>> /\ dst = <<>> /\ dst0 = <<>> /\ clock = 0
    /\ idx = 0 /\ attempted = <<>> /\ err = "nil"
    /\ saved = <<>> /\ loaded = NoState /\ prevFile = <<>>
    /\ runs = 0 /\ edits = 0 /\ faults = 0
    /\ stack = <<>> /\ after = "idle"
    /\ chunkSize = 0 /\ CopyIdle /\ RetryIdle /\ ScanIdle /\ CallIdle
    /\ srcDir = "src" /\ dstDir = "dst" /\ dryRun = FALSE /\ checksum \in BOOLEAN

CallCompareStates ==
    /\ pc = "compare"
    /\ \E so \in Orders(DOMAIN sourceEntries), lo \in Orders(DOMAIN state.Entries) :
          actions' = CompareStates(sourceEntries, state.Entries, so, lo)
    /\ pc' = "compared"
    /\ UNCHANGED <<src, dst, dst0, clock, err, faults, chunkSize, exclVars, argVars,
                   retryVars, scanVars, callVars, copyVars>>
    /\ UNCHANGED <<state, sourceEntries, actions2, idx, attempted, saved, loaded,
                   prevFile, runs, edits, stack, after>>

CallCompareStatesAgain ==
    /\ pc = "compared"
    /\ \E so \in Orders(DOMAIN sourceEntries), lo \in Orders(DOMAIN state.Entries) :
          actions2' = CompareStates(sourceEntries, state.Entries, so, lo)
    /\ pc' = "compared_twice"
    /\ UNCHANGED <<src, dst, dst0, clock, err, faults, chunkSize, exclVars, argVars,
                   retryVars, scanVars, callVars, copyVars>>
    /\ UNCHANGED <<state, sourceEntries, actions, idx, attempted, saved, loaded,
                   prevFile, runs, edits, stack, after>>

NextCompare == CallCompareStates \/ CallCompareStatesAgain

SpecCompare == InitCompare /\ [][NextCompare]_vars

-----------------------------------------------------------------------------
(* Properties of CompareStates *)

ActionPaths(as) == {as[i].RelativePath : i \in DOMAIN as}

CmpUnion == DOMAIN sourceEntries \cup DOMAIN state.Entries

\* C2: CompareStates(A, B) holds exactly one action for each path of
\* keys(A) \cup keys(B) and none for any other path, so its length is the
\* size of that union.
C2_OneActionPerPath ==
    pc = "compared" =>
        /\ ActionPaths(actions) = CmpUnion
        /\ Len(actions) = Cardinality(CmpUnion)
        /\ \A p \in CmpUnion :
              Cardinality({i \in DOMAIN actions : actions[i].RelativePath = p}) = 1

C2_Witness ==
    /\ pc = "compared"
    /\ DOMAIN sourceEntries = {P_d, P_da}
    /\ DOMAIN state.Entries = {P_d}
    /\ Len(actions) = 2

\* C3: a path only in the scan gets create with the current entry, a path only
\* in the previous entries gets delete with empty metadata, a path in both gets
\* none (empty metadata) exactly when |mtime difference| < 1s and the sizes are
\* equal, and update with the current entry otherwise.
C3_Kinds ==
    pc = "compared" =>
        \A i \in DOMAIN actions :
            LET a == actions[i]
                p == a.RelativePath
                inA == p \in DOMAIN sourceEntries
                inB == p \in DOMAIN state.Entries
                d == IF inA /\ inB THEN sourceEntries[p].Mtime - state.Entries[p].Mtime ELSE 0
                absd == IF d < 0 THEN -d ELSE d
                unchanged == inA /\ inB /\ absd < 1000
                                /\ sourceEntries[p].Size = state.Entries[p].Size
            IN  /\ (inA /\ ~inB) => a.Type = ActionCreate /\ a.SourceInfo = sourceEntries[p]
                /\ (inB /\ ~inA) => a.Type = ActionDelete /\ a.SourceInfo = ZeroEntryInfo
                /\ unchanged => a.Type = ActionNone /\ a.SourceInfo = ZeroEntryInfo
                /\ (inA /\ inB /\ ~unchanged) =>
                        a.Type = ActionUpdate /\ a.SourceInfo = sourceEntries[p]

\* a path in both whose mtimes differ by exactly one second, sizes equal: update
C3_Witness ==
    /\ pc = "compared"
    /\ P_da \in DOMAIN sourceEntries /\ P_da \in DOMAIN state.Entries
    /\ sourceEntries[P_da].Mtime = 0 /\ state.Entries[P_da].Mtime = 1000
    /\ sourceEntries[P_da].Size = state.Entries[P_da].Size
    /\ \E i \in DOMAIN actions :
          actions[i].RelativePath = P_da /\ actions[i].Type = ActionUpdate

\* C20: with the checksum option on, a file present in both snapshots gets
\* update when the two checksums differ and none when they are equal,
\* whatever the modification times and sizes are.
C20_ChecksumDecides ==
    (pc = "compared" /\ checksum) =>
        \A i \in DOMAIN actions :
            LET p == actions[i].RelativePath
            IN  (/\ p \in DOMAIN sourceEntries /\ p \in DOMAIN state.Entries
                 /\ ~sourceEntries[p].IsDir /\ ~state.Entries[p].IsDir) =>
                    actions[i].Type =
                        IF sourceEntries[p].Checksum = state.Entries[p].Checksum
                        THEN ActionNone ELSE ActionUpdate

\* C4: two CompareStates calls on the same two snapshots return identical
\* lists, the same actions in the same order.
C4_SameListTwice ==
    pc = "compared_twice" => actions2 = actions

-----------------------------------------------------------------------------
(* The filesystem: what the os package calls of the code do to a tree *)

NoNode         == [kind |-> "none", data |-> <<>>, mtime |-> 0]
DirNode(m)     == [kind |-> "dir",  data |-> <<>>, mtime |-> m]
FileNode(d, m) == [kind |-> "file", data |-> d,    mtime |-> m]

TreePaths == {P_d, P_da, P_dds, P_ddsx, P_bad, P_badU, P_state, P_tmp}
EmptyTree == [p \in TreePaths |-> NoNode]

Root == <<>>

\* filepath.Dir
Dir(p) == SubSeq(p, 1, Len(p) - 1)

\* filepath.Join(root, rel) addresses rel inside the tree of that root
KindOf(t, p) == IF p = Root THEN "dir" ELSE t[p].kind

IsUnder(q, p) == Len(q) > Len(p) /\ SubSeq(q, 1, Len(p)) = p

\* p and its ancestors below the root
Prefixes(p) == {SubSeq(p, 1, k) : k \in 1..Len(p)}

\* os.MkdirAll(p): fails when p or an ancestor of p is a file
MkdirAll(t, p) ==
    IF \E q \in Prefixes(p) : t[q].kind = "file"
    THEN [ok |-> FALSE, tree |-> t]
    ELSE [ok |-> TRUE,
          tree |-> [q \in DOMAIN t |->
                        IF q \in Prefixes(p) /\ t[q].kind = "none" THEN DirNode(0) ELSE t[q]]]

\* os.OpenFile(p, O_WRONLY|O_CREATE...) can open p
CanOpenForWrite(t, p) == KindOf(t, Dir(p)) = "dir" /\ t[p].kind # "dir"

\* os.WriteFile(p, d): O_WRONLY|O_CREATE|O_TRUNC, then one write
WriteFile(t, p, d) ==
    IF CanOpenForWrite(t, p)
    THEN [ok |-> TRUE, tree |-> [t EXCEPT ![p] = FileNode(d, 0)]]
    ELSE [ok |-> FALSE, tree |-> t]

\* os.OpenFile(p, O_CREATE|O_WRONLY): an existing file keeps its content
OpenFile(t, p) ==
    IF CanOpenForWrite(t, p)
    THEN [ok |-> TRUE,
          tree |-> IF t[p].kind = "none" THEN [t EXCEPT ![p] = FileNode(<<>>, 0)] ELSE t]
    ELSE [ok |-> FALSE, tree |-> t]

\* (*os.File).Write of d at offset off of a file holding old
WriteAt(old, off, d) ==
    SubSeq(old, 1, off) \o d \o SubSeq(old, off + Len(d) + 1, Len(old))

\* os.RemoveAll(p): p and everything beneath it; no error when p is absent
RemoveAll(t, p) ==
    IF \E q \in Prefixes(p) : q # p /\ t[q].kind = "file"
    THEN [ok |-> FALSE, tree |-> t]
    ELSE [ok |-> TRUE,
          tree |-> [q \in DOMAIN t |-> IF q = p \/ IsUnder(q, p) THEN NoNode ELSE t[q]]]

\* os.Rename(old, new) of a file: new is replaced in one step
Rename(t, old, new) ==
    IF t[old].kind = "file" /\ CanOpenForWrite(t, new)
    THEN [ok |-> TRUE, tree |-> [t EXCEPT ![new] = t[old], ![old] = NoNode]]
    ELSE [ok |-> FALSE, tree |-> t]

\* os.Stat(p).Size(); EntryInfo documents 0 for directories
SizeOf(t, p) == IF t[p].kind = "file" THEN Len(t[p].data) ELSE 0

-----------------------------------------------------------------------------
(* fileops.go: CopyFile, copyFileBatching *)

MaxFaults == 1

TransportCap == 5

Min(a, b) == IF a < b THEN a ELSE b

Outcome(e, t, f) == [err |-> e, tree |-> t, fault |-> f]

\* CopyFile below the chunk size: MkdirAll, ReadFile, WriteFile.  canFail
\* allows one of the calls to fail for a reason outside the model (an I/O
\* error); a WriteFile that fails after opening leaves a truncated file with
\* a proper prefix of the content.
CopyWhole(s, t, readPath, writePath, canFail) ==
    LET mk == MkdirAll(t, Dir(writePath))
        wr == WriteFile(mk.tree, writePath, s[readPath].data)
        n  == Len(s[readPath].data)
    IN  (IF ~mk.ok THEN {Outcome("ErrMkDir", t, FALSE)}
         ELSE IF s[readPath].kind # "file" THEN {Outcome("ErrRead", mk.tree, FALSE)}
         ELSE IF ~wr.ok THEN {Outcome("ErrWrite", mk.tree, FALSE)}
         ELSE {Outcome("nil", wr.tree, FALSE)})
        \cup
        (IF ~canFail THEN {}
         ELSE {Outcome("ErrMkDir", t, TRUE)}
              \cup (IF mk.ok THEN {Outcome("ErrRead", mk.tree, TRUE)} ELSE {})
              \cup (IF mk.ok /\ s[readPath].kind = "file"
                    THEN {Outcome("ErrWrite", mk.tree, TRUE)}
                         \cup (IF wr.ok
                               THEN {Outcome("ErrWrite",
                                        [mk.tree EXCEPT ![writePath] =
                                            FileNode(SubSeq(s[readPath].data, 1, k), 0)],
                                        TRUE) : k \in 0..(n - 1)}
                               ELSE {})
                    ELSE {}))

\* copyFileBatching up to the start of the reader goroutine: Stat, MkdirAll,
\* Open of the source, OpenFile of the destination
BatchSetup(s, t, readPath, writePath, canFail) ==
    LET mk == MkdirAll(t, Dir(writePath))
        op == OpenFile(mk.tree, writePath)
    IN  (IF ~mk.ok THEN {Outcome("ErrMkDir", t, FALSE)}
         ELSE IF ~op.ok THEN {Outcome("errOpen", mk.tree, FALSE)}
         ELSE {Outcome("nil", op.tree, FALSE)})
        \cup
        (IF ~canFail THEN {}
         ELSE {Outcome("ErrStat", t, TRUE), Outcome("ErrMkDir", t, TRUE)}
              \cup (IF mk.ok THEN {Outcome("errOpen", mk.tree, TRUE)} ELSE {}))

\* the chunked copy as a whole: the result of every run of the pipeline.
\* The destination holds the first j bytes of the source written over its
\* previous content from offset 0; j is the whole source on success, and a
\* whole number of chunks when a read or a write failed.
CopyBatching(s, t, readPath, writePath, chunk, canFail) ==
    LET srcData == s[readPath].data
        n       == Len(srcData)
        over(tr, j) == [tr EXCEPT ![writePath] =
                            FileNode(WriteAt(tr[writePath].data, 0, SubSeq(srcData, 1, j)), 0)]
        cuts    == {j \in 0..n : j % chunk = 0}
    IN  UNION {IF o.err # "nil" THEN {o}
               ELSE {Outcome("nil", over(o.tree, n), FALSE)}
                    \cup (IF ~canFail THEN {}
                          ELSE {Outcome("ErrBatchRead", over(o.tree, j), TRUE) : j \in cuts \cup {n}}
                               \cup {Outcome("ErrBatchWrite", over(o.tree, j), TRUE) :
                                        j \in cuts \ {n}}) :
               o \in BatchSetup(s, t, readPath, writePath, canFail)}

\* CopyFile as one call: the size gate of line 32 chooses the strategy
CopyFile(s, t, readPath, writePath, chunk, canFail) ==
    IF s[readPath].kind = "none"
    THEN {Outcome("ErrStat", t, FALSE)}
    ELSE (IF canFail THEN {Outcome("ErrStat", t, TRUE)} ELSE {})
         \cup (IF SizeOf(s, readPath) >= chunk
               THEN CopyBatching(s, t, readPath, writePath, chunk, canFail)
               ELSE CopyWhole(s, t, readPath, writePath, canFail))

-----------------------------------------------------------------------------
(* CopyFile step by step: the reader goroutine and the consumer loop of     *)
(* copyFileBatching run concurrently; readPath and writePath are d/a under *)
(* the two roots                                                           *)

MaxLen   == 7
MaxChunk == 3

OldBytes(n) == [i \in 1..n |-> [byte |-> 100 + i]]

CanFail == faults < MaxFaults

InitCopy ==
    /\ \E n \in 0..MaxLen :
          src = [EmptyTree EXCEPT ![P_d] = DirNode(0), ![P_da] = FileNode(Bytes(n), 0)]
    /\ \/ dst = EmptyTree
       \/ \E m \in 0..MaxLen :
             dst = [EmptyTree EXCEPT ![P_d] = DirNode(0), ![P_da] = FileNode(OldBytes(m), 0)]
    /\ dst0 = dst
    /\ chunkSize \in 1..MaxChunk
    /\ pc = "CopyFile"
    /\ err = "nil" /\ faults = 0 /\ clock = 0
    /\ CopyIdle /\ RetryIdle /\ ScanIdle /\ CallIdle /\ MainArgs
    /\ state = NoState /\ sourceEntries = <<>> /\ actions = <<>> /\ actions2 = <<>>
    /\ idx = 0 /\ attempted = <<>> /\ saved = <<>> /\ loaded = NoState
    /\ prevFile = <<>> /\ runs = 0 /\ edits = 0
    /\ stack = <<>> /\ after = "idle"

\* CopyFile lines 26-51 for a file below the chunk size
CopyFileWhole ==
    /\ pc = "CopyFile"
    /\ SizeOf(src, P_da) < chunkSize
    /\ \E o \in CopyFile(src, dst, P_da, P_da, chunkSize, CanFail) :
          /\ dst' = o.tree
          /\ err' = o.err
          /\ faults' = IF o.fault THEN faults + 1 ELSE faults
    /\ pc' = "returned"
    /\ UNCHANGED <<src, dst0, clock, chunkSize, exclVars, argVars, retryVars, scanVars, callVars,
                   runVars, copyVars>>

\* CopyFile lines 26-35 and copyFileBatching lines 53-84, up to the `go`
CopyFileBatchingStart ==
    /\ pc = "CopyFile"
    /\ SizeOf(src, P_da) >= chunkSize
    /\ \E o \in BatchSetup(src, dst, P_da, P_da, CanFail) :
          /\ dst' = o.tree
          /\ err' = o.err
          /\ faults' = IF o.fault THEN faults + 1 ELSE faults
          /\ IF o.err = "nil"
             THEN pc' = "range" /\ rpc' = "read"
             ELSE pc' = "returned" /\ rpc' = rpc
    /\ UNCHANGED <<src, dst0, clock, chunkSize, exclVars, argVars, retryVars, scanVars, callVars,
                   runVars>>
    /\ UNCHANGED <<transport, closed, errChan, bufCopy, data, roff, woff>>

\* reader goroutine, lines 91-95 and 102-113: one srcFile.Read.  Once
\* copyFileBatching has returned, its deferred srcFile.Close() has run and
\* the Read fails with os.ErrClosed.
ReaderRead ==
    /\ rpc = "read"
    /\ LET n == Min(chunkSize, Len(src[P_da].data) - roff)
       IN  \/ /\ pc # "returned"
              /\ n > 0
              /\ bufCopy' = SubSeq(src[P_da].data, roff + 1, roff + n)
              /\ roff' = roff + n
              /\ rpc' = "send"
              /\ UNCHANGED <<closed, errChan, faults>>
           \/ /\ pc # "returned"
              /\ n = 0 /\ chunkSize > 0   \* io.EOF: break, then the deferred close
              /\ closed' = TRUE
              /\ rpc' = "exit"
              /\ UNCHANGED <<bufCopy, roff, errChan, faults>>
           \/ /\ CanFail \/ pc = "returned"   \* a read error
              /\ faults' = IF pc = "returned" THEN faults ELSE faults + 1
              /\ errChan' = IF Len(errChan) < 1 THEN Append(errChan, "ErrRead") ELSE errChan
              /\ closed' = TRUE
              /\ rpc' = "exit"
              /\ UNCHANGED <<bufCopy, roff>>
    /\ UNCHANGED <<src, dst, dst0, clock, pc, err, chunkSize, exclVars, argVars,
                   retryVars, scanVars, callVars, runVars, transport, data, woff>>

\* reader goroutine, line 85: the deferred readerDone.Done(), which runs after
\* the deferred close(transport) of line 86
ReaderDone ==
    /\ rpc = "exit"
    /\ rpc' = "done"
    /\ UNCHANGED <<src, dst, dst0, clock, pc, err, faults, chunkSize, exclVars,
                   argVars, retryVars, scanVars, callVars, runVars>>
    /\ UNCHANGED <<transport, closed, errChan, bufCopy, data, roff, woff>>

\* reader goroutine, line 96: transport <- bufCopy blocks while the channel is full
ReaderSendMutNoWait ==
    /\ rpc = "send"
    /\ transport' = Append(transport, bufCopy)
    /\ rpc' = "read"
    /\ UNCHANGED <<src, dst, dst0, clock, pc, err, faults, chunkSize, exclVars,
                   argVars, retryVars, scanVars, callVars, runVars>>
    /\ UNCHANGED <<closed, errChan, bufCopy, data, roff, woff>>

ReaderSend ==
    /\ rpc = "send"
    /\ Len(transport) < TransportCap
    /\ transport' = Append(transport, bufCopy)
    /\ rpc' = "read"
    /\ UNCHANGED <<src, dst, dst0, clock, pc, err, faults, chunkSize, exclVars,
                   argVars, retryVars, scanVars, callVars, runVars>>
    /\ UNCHANGED <<closed, errChan, bufCopy, data, roff, woff>>

\* consumer, line 118: `for data := range transport`
ConsumerReceiveMutLifo ==
    /\ pc = "range"
    /\ \/ /\ transport # <<>>
          /\ data' = transport[Len(transport)]
          /\ transport' = SubSeq(transport, 1, Len(transport) - 1)
          /\ pc' = "write"
       \/ /\ transport = <<>> /\ closed
          /\ pc' = "wait"
          /\ UNCHANGED <<data, transport>>
    /\ UNCHANGED <<src, dst, dst0, clock, err, faults, chunkSize, exclVars, argVars,
                   retryVars, scanVars, callVars, runVars>>
    /\ UNCHANGED <<closed, errChan, rpc, bufCopy, roff, woff>>

ConsumerReceiveMutCloseFirst ==
    /\ pc = "range"
    /\ \/ /\ transport # <<>> /\ ~closed
          /\ data' = Head(transport)
          /\ transport' = Tail(transport)
          /\ pc' = "write"
       \/ /\ closed
          /\ pc' = "wait"
          /\ UNCHANGED <<data, transport>>
    /\ UNCHANGED <<src, dst, dst0, clock, err, faults, chunkSize, exclVars, argVars,
                   retryVars, scanVars, callVars, runVars>>
    /\ UNCHANGED <<closed, errChan, rpc, bufCopy, roff, woff>>

ConsumerReceive ==
    /\ pc = "range"
    /\ \/ /\ transport # <<>>
          /\ data' = Head(transport)
          /\ transport' = Tail(transport)
          /\ pc' = "write"
       \/ /\ transport = <<>> /\ closed
          /\ pc' = "wait"
          /\ UNCHANGED <<data, transport>>
    /\ UNCHANGED <<src, dst, dst0, clock, err, faults, chunkSize, exclVars, argVars,
                   retryVars, scanVars, callVars, runVars>>
    /\ UNCHANGED <<closed, errChan, rpc, bufCopy, roff, woff>>

\* consumer, lines 119-124: dstFile.Write(data)
ConsumerWrite ==
    /\ pc = "write"
    /\ \/ /\ dst' = [dst EXCEPT ![P_da].data = WriteAt(dst[P_da].data, woff, data)]
          /\ woff' = woff + Len(data)
          /\ pc' = "range"
          /\ UNCHANGED <<err, faults>>
       \/ /\ CanFail
          /\ faults' = faults + 1
          /\ err' = "ErrBatchWrite"
          /\ pc' = "returned"
          /\ UNCHANGED <<dst, woff>>
    /\ UNCHANGED <<src, dst0, clock, chunkSize, exclVars, argVars, retryVars, scanVars, callVars,
                   runVars>>
    /\ UNCHANGED <<transport, closed, errChan, rpc, bufCopy, data, roff>>

\* lines 131-140: readerDone.Wait(), then the select on errChan
WaitAndReturnMutNoWait ==
    /\ pc = "wait"
    /\ IF errChan # <<>>
       THEN err' = "ErrBatchRead" /\ errChan' = Tail(errChan)
       ELSE err' = "nil" /\ errChan' = errChan
    /\ pc' = "returned"
    /\ UNCHANGED <<src, dst, dst0, clock, faults, chunkSize, exclVars, argVars,
                   retryVars, scanVars, callVars, runVars>>
    /\ UNCHANGED <<transport, closed, rpc, bufCopy, data, roff, woff>>

WaitAndReturn ==
    /\ pc = "wait"
    /\ rpc = "done"
    /\ IF errChan # <<>>
       THEN err' = "ErrBatchRead" /\ errChan' = Tail(errChan)
       ELSE err' = "nil" /\ errChan' = errChan
    /\ pc' = "returned"
    /\ UNCHANGED <<src, dst, dst0, clock, faults, chunkSize, exclVars, argVars,
                   retryVars, scanVars, callVars, runVars>>
    /\ UNCHANGED <<transport, closed, rpc, bufCopy, data, roff, woff>>

NextCopy ==
    \/ CopyFileWhole
    \/ CopyFileBatchingStart
    \/ ReaderRead
    \/ ReaderSend
    \/ ReaderDone
    \/ ConsumerReceive
    \/ ConsumerWrite
    \/ WaitAndReturn

SpecCopy == InitCopy /\ [][NextCopy]_vars

\* the Go scheduler runs every goroutine that can take a step: the caller of
\* CopyFile, which runs the consumer loop, and the reader goroutine
SpecCopyFair ==
    /\ SpecCopy
    /\ WF_vars(CopyFileWhole \/ CopyFileBatchingStart \/ ConsumerReceive
                   \/ ConsumerWrite \/ WaitAndReturn)
    /\ WF_vars(ReaderRead \/ ReaderSend \/ ReaderDone)

\* CopyFile for every chunk size the -chunk-size flag admits without crashing
\* the process: flags.go line 17 sets no lower bound, so 0 is a legal value
InitCopyAny ==
    /\ \E n \in 0..MaxLen :
          src = [EmptyTree EXCEPT ![P_d] = DirNode(0), ![P_da] = FileNode(Bytes(n), 0)]
    /\ \/ dst = EmptyTree
       \/ \E m \in 0..MaxLen :
             dst = [EmptyTree EXCEPT ![P_d] = DirNode(0), ![P_da] = FileNode(OldBytes(m), 0)]
    /\ dst0 = dst
    /\ chunkSize \in 0..MaxChunk
    /\ pc = "CopyFile"
    /\ err = "nil" /\ faults = 0 /\ clock = 0
    /\ CopyIdle /\ RetryIdle /\ ScanIdle /\ CallIdle /\ MainArgs
    /\ state = NoState /\ sourceEntries = <<>> /\ actions = <<>> /\ actions2 = <<>>
    /\ idx = 0 /\ attempted = <<>> /\ saved = <<>> /\ loaded = NoState
    /\ prevFile = <<>> /\ runs = 0 /\ edits = 0
    /\ stack = <<>> /\ after = "idle"

\* reader goroutine, lines 87 and 91: buf is make([]byte, 0), and a Read into
\* an empty buffer returns 0 bytes and a nil error, at the end of the file too
ReaderReadEmpty ==
    /\ rpc = "read"
    /\ chunkSize = 0
    /\ pc # "returned"
    /\ rpc' = "loop"
    /\ UNCHANGED <<src, dst, dst0, clock, pc, err, faults, chunkSize, exclVars,
                   argVars, retryVars, scanVars, callVars, runVars>>
    /\ UNCHANGED <<transport, closed, errChan, bufCopy, data, roff, woff>>

\* reader goroutine, lines 90, 92 and 102: n is 0 and err is nil, so neither
\* `if` is entered and the `for` starts over
ReaderLoop ==
    /\ rpc = "loop"
    /\ rpc' = "read"
    /\ UNCHANGED <<src, dst, dst0, clock, pc, err, faults, chunkSize, exclVars,
                   argVars, retryVars, scanVars, callVars, runVars>>
    /\ UNCHANGED <<transport, closed, errChan, bufCopy, data, roff, woff>>

NextCopyAny ==
    \/ NextCopy
    \/ ReaderReadEmpty
    \/ ReaderLoop

SpecCopyAny == InitCopyAny /\ [][NextCopyAny]_vars

\* the fairness of SpecCopyFair, the reader's zero-byte reads included
SpecCopyAnyFair ==
    /\ SpecCopyAny
    /\ WF_vars(CopyFileWhole \/ CopyFileBatchingStart \/ ConsumerReceive
                   \/ ConsumerWrite \/ WaitAndReturn)
    /\ WF_vars(ReaderRead \/ ReaderSend \/ ReaderDone \/ ReaderReadEmpty \/ ReaderLoop)

\* C39: for every chunk size the flag admits, 0 included, every fairly
\* scheduled CopyFile call returns to its caller; the reader goroutine is
\* never left reading forever with the caller waiting on the queue.
C39_CopyFileReturns == <>(pc = "returned")

\* the stepwise pipeline and the one-call CopyFile agree on every result
CopyRefinesCopyFile ==
    pc = "returned" =>
        \E o \in CopyFile(src, dst0, P_da, P_da, chunkSize, TRUE) :
            o.err = err /\ o.tree = dst

\* C5: a CopyFile call that meets no I/O error returns success and leaves a
\* destination file whose bytes and size are those of the source, for a
\* source below, at and above the chunk size.
C5_CopyIdentical ==
    pc = "returned" /\ faults = 0 =>
        /\ err = "nil"
        /\ dst[P_da].kind = "file"
        /\ dst[P_da].data = src[P_da].data

\* the chunks of a queue, joined in queue order
RECURSIVE Flatten(_)
Flatten(q) == IF q = <<>> THEN <<>> ELSE Head(q) \o Flatten(Tail(q))

\* the bytes dstFile.Write has written, the bytes srcFile.Read has returned,
\* and the bytes between the two: the chunk the consumer holds, the queue,
\* the chunk the reader is about to send
Written   == SubSeq(dst[P_da].data, 1, woff)
ReadSoFar == SubSeq(src[P_da].data, 1, roff)
InFlight  ==
    (IF pc = "write" THEN data ELSE <<>>)
    \o Flatten(transport)
    \o (IF rpc = "send" THEN bufCopy ELSE <<>>)

\* C21: in the chunked copy the bytes written so far are a prefix of the
\* bytes read so far, and while the pipeline runs the bytes written followed
\* by the chunks in flight, in queue order, are exactly the bytes read: no
\* chunk is lost, duplicated or reordered.
C21_WrittenPrefixOfRead ==
    rpc # "none" =>
        /\ woff <= roff
        /\ Written = SubSeq(src[P_da].data, 1, woff)
        /\ pc \in {"range", "write", "wait"} => Written \o InFlight = ReadSoFar

\* a chunk written, one being written, two queued and one about to be sent
C21_Witness ==
    /\ pc = "write" /\ rpc = "send"
    /\ woff >= 1 /\ Len(transport) >= 2
    /\ chunkSize = 1

\* C22: the queue of the chunked copy never holds more than 5 chunks; the
\* producer, holding a chunk to send, stays where it is while the queue holds
\* 5 and sends only into a queue of fewer; the consumer, at the head of its
\* loop, stays there while the queue is empty and not closed.
C22_Step ==
    /\ Len(transport) <= TransportCap /\ Len(transport') <= TransportCap
    /\ (rpc = "send" /\ Len(transport) = TransportCap) =>
          rpc' = "send" /\ bufCopy' = bufCopy /\ Len(transport') <= Len(transport)
    /\ Len(transport') > Len(transport) =>
          /\ rpc = "send" /\ Len(transport) < TransportCap
          /\ transport' = Append(transport, bufCopy)
    /\ (pc = "range" /\ transport = <<>> /\ ~closed) => pc' = "range"

C22_BoundedQueue == [][C22_Step]_vars

\* the producer holds the seventh chunk and the queue is full
C22_Witness ==
    /\ rpc = "send" /\ Len(transport) = TransportCap
    /\ roff = 7 /\ chunkSize = 1 /\ pc = "write"

\* C24: every fairly scheduled execution of CopyFile reaches the point where
\* the call has returned and the reader goroutine, if one was started, has
\* ended: neither stage is blocked forever, whether the copy succeeded, a
\* read failed or a write failed.
C24_BothStagesStop == <>(pc = "returned" /\ rpc \in {"none", "done"})

\* C25: transport is closed once, by the reader goroutine as it ends, and
\* nothing is enqueued after the close; the consumer leaves its loop for the
\* wait only when the queue is closed and empty (its one other exit is the
\* return on a write error); and errChan is read only when the queue is
\* closed and empty and the reader goroutine has called Done.
C25_Step ==
    /\ closed' # closed => ~closed /\ rpc = "read" /\ rpc' = "exit"
    /\ closed => rpc \in {"exit", "done"} /\ rpc' \in {"exit", "done"}
    /\ closed => Len(transport') <= Len(transport)
    /\ (pc \in {"range", "write"} /\ pc' \notin {"range", "write"}) =>
          \/ pc = "range" /\ pc' = "wait" /\ closed /\ transport = <<>>
          \/ pc = "write" /\ pc' = "returned" /\ err' = "ErrBatchWrite"
    /\ (errChan' # errChan /\ Len(errChan') < Len(errChan)) \/ (pc = "wait" /\ pc' # "wait") =>
          /\ pc = "wait" /\ pc' = "returned"
          /\ closed /\ transport = <<>> /\ rpc = "done"

C26_ReadFailureLeavesPrefix ==
    /\ (pc = "returned" /\ errChan # <<>>) => err # "nil"
    /\ (pc = "returned" /\ err = "ErrBatchRead") =>
          /\ faults > 0
          /\ dst0[P_da].kind = "none" =>
                /\ dst[P_da].kind = "file"
                /\ dst[P_da].data = SubSeq(src[P_da].data, 1, roff)
                /\ woff = roff
                /\ roff % chunkSize = 0 \/ roff = Len(src[P_da].data)

\* the third read of a source of more than two chunks of 2 bytes failed
C26_Witness ==
    /\ pc = "returned" /\ err = "ErrBatchRead"
    /\ dst0[P_da].kind = "none"
    /\ chunkSize = 2 /\ roff = 4 /\ Len(src[P_da].data) > 4
    /\ Len(dst[P_da].data) = 4

\* C27: after a CopyFile call that returned success the destination is a
\* file with the content and the size of the source, whether the destination
\* path was absent or held a shorter or a longer file, and whether the copy
\* took the whole-file path or the chunked path.
C27_CopyReplacesDestination ==
    (pc = "returned" /\ err = "nil") =>
        /\ dst[P_da].kind = "file"
        /\ SizeOf(dst, P_da) = SizeOf(src, P_da)
        /\ dst[P_da].data = src[P_da].data

-----------------------------------------------------------------------------
(* state.go: the persisted SyncState *)

\* encoding/json writes every string coerced to valid UTF-8: a byte that is
\* not part of a valid encoding becomes the replacement rune U+FFFD
ToValidUTF8(seg) == IF seg = "b_xFF" THEN "b_uFFFD" ELSE seg

CoercePath(p) == [i \in DOMAIN p |-> ToValidUTF8(p[i])]

\* the "e" object: keys and RelativePath fields are strings
EncodeEntries(e) ==
    LET keys == {CoercePath(p) : p \in DOMAIN e}
        orig(k) == CHOOSE p \in DOMAIN e : CoercePath(p) = k
    IN  [k \in keys |-> [e[orig(k)] EXCEPT !.RelativePath = CoercePath(@)]]

\* json.Marshal(state): one unit per top-level field, tags "v", "ls", "e"
jsonMarshal(st) ==
    <<[v |-> st.Version], [ls |-> st.LastSync], [e |-> EncodeEntries(st.Entries)]>>

\* json.Unmarshal accepts only a complete document with nothing after it
jsonValidMutNoLen(d) ==
    /\ Len(d) >= 3
    /\ DOMAIN d[1] = {"v"} /\ DOMAIN d[2] = {"ls"} /\ DOMAIN d[3] = {"e"}

jsonValid(d) ==
    /\ Len(d) = 3
    /\ DOMAIN d[1] = {"v"} /\ DOMAIN d[2] = {"ls"} /\ DOMAIN d[3] = {"e"}

jsonUnmarshal(d) == [Version |-> d[1].v, LastSync |-> d[2].ls, Entries |-> d[3].e]

\* the entries of the state file of tree t
PersistedEntries(t) == jsonUnmarshal(t[P_state].data).Entries

HoldsState(t) == t[P_state].kind = "file" /\ jsonValid(t[P_state].data)

\* tempFile := stateFileLocation + ".tmp"
tempFileMutInPlace == P_state

tempFile == P_tmp

Top(stk) == IF stk = <<>> THEN "test" ELSE stk[Len(stk)]
Pop(stk) == SubSeq(stk, 1, Len(stk) - 1)

\* LoadState returns (result, e) to the caller on top of stk: runSync goes on
\* to ScanSource or returns the error
LoadStateReturns(stk, result, e) ==
    /\ err' = e
    /\ loaded' = result
    /\ stack' = IF Top(stk) = "runSync" /\ e = "nil" THEN stk ELSE <<>>
    /\ pc' = IF Top(stk) = "runSync"
             THEN (IF e = "nil" THEN "ScanSource" ELSE "done")
             ELSE "loaded"

\* SaveState returns e; st is the state it was given, as it is now
SaveStateReturns(e, st) ==
    IF Top(stack) = "LoadState"
    THEN LoadStateReturns(Pop(stack), st, e)
    ELSE /\ err' = e
         /\ loaded' = loaded
         /\ stack' = <<>>
         /\ pc' = IF Top(stack) = "runSync" THEN "done"
                  ELSE IF e = "nil" THEN "saved" ELSE "idle"

\* lines 50-54: the state LoadState makes when there is no state file
FreshStateMutV0(now) == [Version |-> 0, LastSync |-> now, Entries |-> <<>>]

FreshState(now) == [Version |-> 1, LastSync |-> now, Entries |-> <<>>]

\* LoadState, lines 35-72
LoadState ==
    /\ pc = "LoadState"
    /\ \/ /\ dstDir = ""                       \* lines 36-38
          /\ LoadStateReturns(stack, NoState, "ErrSyncStateEmptyDst")
          /\ UNCHANGED <<state, faults>>
       \/ /\ dstDir # ""
          /\ dst[P_state].kind = "none"       \* no state file: a fresh state, saved at once
          /\ state' = FreshState(clock)
          /\ stack' = Append(stack, "LoadState")
          /\ pc' = "SaveState"
          /\ UNCHANGED <<err, loaded, faults>>
       \/ /\ dstDir # ""
          /\ dst[P_state].kind = "dir"        \* os.ReadFile of a directory
          /\ LoadStateReturns(stack, NoState, "ErrSyncStateRead")
          /\ UNCHANGED <<state, faults>>
       \/ /\ dstDir # ""
          /\ dst[P_state].kind = "file"
          /\ IF jsonValid(dst[P_state].data)
             THEN /\ LoadStateReturns(stack, jsonUnmarshal(dst[P_state].data), "nil")
                  /\ state' = IF Top(stack) = "runSync"
                              THEN jsonUnmarshal(dst[P_state].data) ELSE state
             ELSE /\ LoadStateReturns(stack, NoState, "ErrSyncStateJSONParse")
                  /\ state' = state
          /\ UNCHANGED faults
       \/ /\ dstDir # ""
          /\ CanFail                           \* os.Stat or os.ReadFile fails
          /\ faults' = faults + 1
          /\ LoadStateReturns(stack, NoState, "ErrSyncStateRead")
          /\ UNCHANGED state
    /\ UNCHANGED <<src, dst, dst0, clock, chunkSize, exclVars, argVars, retryVars,
                   scanVars, callVars, copyVars>>
    /\ UNCHANGED <<sourceEntries, actions, actions2, idx, attempted, saved, prevFile,
                   runs, edits, after>>

\* SaveState, lines 75-80: the checks of the two arguments
SaveStateCheckMutOrder(st, dir) ==
    IF dir = "" THEN "ErrSyncStateEmptyDst"
    ELSE IF st = NoState THEN "ErrSyncStateNil"
    ELSE "nil"

SaveStateCheck(st, dir) ==
    IF st = NoState THEN "ErrSyncStateNil"
    ELSE IF dir = "" THEN "ErrSyncStateEmptyDst"
    ELSE "nil"

\* SaveState, lines 74-96: the checks, the timestamp, json.Marshal,
\* os.MkdirAll(dstDir)
SaveStateStamp ==
    /\ pc = "SaveState"
    /\ prevFile' = dst[P_state]
    /\ IF SaveStateCheck(state, dstDir) # "nil"
       THEN /\ SaveStateReturns(SaveStateCheck(state, dstDir), state)
            /\ UNCHANGED <<state, clock, saved, faults>>
       ELSE /\ state' = [state EXCEPT !.LastSync = clock]
            /\ clock' = clock + 1
            /\ \/ /\ saved' = jsonMarshal(state')
                  /\ pc' = "save_open"
                  /\ UNCHANGED <<err, loaded, stack, faults>>
               \/ /\ CanFail
                  /\ faults' = faults + 1
                  /\ saved' = saved
                  /\ \E e \in {"ErrSyncStateJSONSerialize", "ErrSyncStateDstDir"} :
                        SaveStateReturns(e, state')
    /\ UNCHANGED <<src, dst, dst0, chunkSize, exclVars, argVars, retryVars, scanVars, callVars,
                   copyVars>>
    /\ UNCHANGED <<sourceEntries, actions, actions2, idx, attempted, runs, edits, after>>

\* C14: SaveState with a nil state returns ErrSyncStateNil, and with a state
\* and an empty destination path ErrSyncStateEmptyDst (the nil state is
\* checked first); neither call changes the filesystem, the clock or the
\* state it was given.
C14_Step ==
    (pc = "SaveState" /\ (state = NoState \/ dstDir = "")) =>
        /\ err' = IF state = NoState THEN "ErrSyncStateNil" ELSE "ErrSyncStateEmptyDst"
        /\ pc' \notin {"save_open", "save_write", "save_rename", "saved"}
        /\ dst' = dst
        /\ state' = state

C14_SaveStateFailsFast == [][C14_Step]_vars

\* SaveState, line 99: os.WriteFile opens the temp file with O_TRUNC
SaveStateOpenTemp ==
    /\ pc = "save_open"
    /\ \/ /\ CanOpenForWrite(dst, tempFile)
          /\ dst' = [dst EXCEPT ![tempFile] = FileNode(<<>>, 0)]
          /\ pc' = "save_write"
          /\ UNCHANGED <<err, loaded, stack, faults>>
       \/ /\ ~CanOpenForWrite(dst, tempFile)
          /\ SaveStateReturns("ErrSyncStateWrite", state)
          /\ UNCHANGED <<dst, faults>>
       \/ /\ CanFail
          /\ faults' = faults + 1
          /\ SaveStateReturns("ErrSyncStateWrite", state)
          /\ UNCHANGED dst
    /\ UNCHANGED <<src, dst0, clock, chunkSize, exclVars, argVars, retryVars, scanVars, callVars,
                   copyVars>>
    /\ UNCHANGED <<state, sourceEntries, actions, actions2, idx, attempted, saved,
                   prevFile, runs, edits, after>>

\* SaveState, line 99: os.WriteFile writes the data; the file grows as the
\* write proceeds
SaveStateWriteTemp ==
    /\ pc = "save_write"
    /\ \/ /\ LET n == Len(dst[tempFile].data) + 1
             IN  /\ dst' = [dst EXCEPT ![tempFile].data = Append(@, saved[n])]
                 /\ pc' = IF n = Len(saved) THEN "save_rename" ELSE "save_write"
          /\ UNCHANGED <<err, loaded, stack, faults>>
       \/ /\ CanFail
          /\ faults' = faults + 1
          /\ SaveStateReturns("ErrSyncStateWrite", state)
          /\ UNCHANGED dst
    /\ UNCHANGED <<src, dst0, clock, chunkSize, exclVars, argVars, retryVars, scanVars, callVars,
                   copyVars>>
    /\ UNCHANGED <<state, sourceEntries, actions, actions2, idx, attempted, saved,
                   prevFile, runs, edits, after>>

\* SaveState, lines 103-109: os.Rename, and os.Remove of the temp file when
\* the rename fails
SaveStateRename ==
    /\ pc = "save_rename"
    /\ LET rn == Rename(dst, tempFile, P_state)
       IN  \/ /\ rn.ok
              /\ dst' = rn.tree
              /\ SaveStateReturns("nil", state)
              /\ UNCHANGED faults
           \/ /\ ~rn.ok \/ CanFail
              /\ faults' = IF rn.ok THEN faults + 1 ELSE faults
              /\ dst' = [dst EXCEPT ![tempFile] = NoNode]
              /\ SaveStateReturns("ErrSyncStateReplace", state)
    /\ UNCHANGED <<src, dst0, clock, chunkSize, exclVars, argVars, retryVars, scanVars, callVars,
                   copyVars>>
    /\ UNCHANGED <<state, sourceEntries, actions, actions2, idx, attempted, saved,
                   prevFile, runs, edits, after>>

-----------------------------------------------------------------------------
(* A test driver for the state store: it saves states, loads them back, and *)
(* may be killed in the middle of a SaveState                               *)

MaxCalls == 3

StartClock == 5000

FileEntry(p, n, m) ==
    [RelativePath |-> p, Mtime |-> m, Size |-> n, IsDir |-> FALSE,
     Checksum |-> <<"xxhash", Bytes(n)>>]

DirEntry(p, m) ==
    [RelativePath |-> p, Mtime |-> m, Size |-> 0, IsDir |-> TRUE, Checksum |-> <<>>]

TestSnapshots ==
    {<<>>,
     (P_da :> FileEntry(P_da, 1, 1000)),
     (P_d :> DirEntry(P_d, 1000)) @@ (P_da :> FileEntry(P_da, 2, 2000)),
     (P_bad :> FileEntry(P_bad, 1, 1000))}

TestStates ==
    {[Version |-> v, LastSync |-> 0, Entries |-> e] : v \in {0, 1}, e \in TestSnapshots}

\* the dstDir arguments the tests pass: the temp directory and ""
TestDirs == {"dst", ""}

\* the calls of TestSaveStateErrors, and the one with both arguments bad
TestErrorCalls ==
    {<<NoState, d>> : d \in TestDirs}
    \cup {<<[Version |-> 1, LastSync |-> 0, Entries |-> <<>>], "">>}

InitState ==
    /\ \/ dst = EmptyTree
       \/ \E st \in TestStates :
             dst = [EmptyTree EXCEPT ![P_state] = FileNode(jsonMarshal(st), 0)]
    /\ dst0 = dst
    /\ src = EmptyTree
    /\ clock = StartClock
    /\ pc = "idle"
    /\ err = "nil" /\ faults = 0 /\ chunkSize = 0
    /\ CopyIdle /\ RetryIdle /\ ScanIdle /\ CallIdle /\ MainArgs
    /\ state = NoState /\ sourceEntries = <<>> /\ actions = <<>> /\ actions2 = <<>>
    /\ idx = 0 /\ attempted = <<>> /\ saved = <<>> /\ loaded = NoState
    /\ prevFile = dst[P_state] /\ runs = 0 /\ edits = 0
    /\ stack = <<>> /\ after = "idle"

Resting == pc \in {"idle", "loaded", "saved", "killed"}

TestCallsSaveState ==
    /\ Resting
    /\ runs < MaxCalls
    /\ runs' = runs + 1
    /\ \/ state' \in TestStates /\ dstDir' = "dst"
       \/ \E c \in TestErrorCalls : state' = c[1] /\ dstDir' = c[2]
    /\ pc' = "SaveState"
    /\ UNCHANGED <<src, dst, dst0, clock, err, faults, chunkSize, exclVars, retryVars,
                   scanVars, callVars, copyVars>>
    /\ UNCHANGED <<srcDir, dryRun, checksum>>
    /\ UNCHANGED <<sourceEntries, actions, actions2, idx, attempted, saved, loaded,
                   prevFile, edits, stack, after>>

TestCallsLoadState ==
    /\ Resting
    /\ runs < MaxCalls
    /\ runs' = runs + 1
    /\ after' = pc
    /\ dstDir' = "dst"
    /\ pc' = "LoadState"
    /\ UNCHANGED <<src, dst, dst0, clock, err, faults, chunkSize, exclVars, retryVars,
                   scanVars, callVars, copyVars>>
    /\ UNCHANGED <<srcDir, dryRun, checksum>>
    /\ UNCHANGED <<state, sourceEntries, actions, actions2, idx, attempted, saved,
                   loaded, prevFile, edits, stack>>

\* the process is killed inside SaveState: before the temp file is written,
\* while it is written, or before the rename
Kill ==
    /\ pc \in {"save_open", "save_write", "save_rename"}
    /\ pc' = "killed"
    /\ stack' = <<>>
    /\ state' = NoState
    /\ loaded' = NoState
    /\ UNCHANGED <<src, dst, dst0, clock, err, faults, chunkSize, exclVars, argVars,
                   retryVars, scanVars, callVars, copyVars>>
    /\ UNCHANGED <<sourceEntries, actions, actions2, idx, attempted, saved, prevFile,
                   runs, edits, after>>

NextState ==
    \/ TestCallsSaveState
    \/ TestCallsLoadState
    \/ LoadState
    \/ SaveStateStamp
    \/ SaveStateOpenTemp
    \/ SaveStateWriteTemp
    \/ SaveStateRename
    \/ Kill

SpecState == InitState /\ [][NextState]_vars

\* what a state file may hold when LoadState reads it: a document SaveState
\* wrote, the first units of one (a truncated file), or one followed by
\* other bytes
LoadDocs ==
    LET written == {jsonMarshal(st) : st \in TestStates}
    IN  written
        \cup {SubSeq(d, 1, k) : d \in written, k \in 0..2}
        \cup {Append(d, [junk |-> TRUE]) : d \in written}

\* LoadState is called on a destination with no state file, with a state
\* file of any content, or with a directory in its place
InitLoad ==
    /\ \/ dst = EmptyTree
       \/ dst = [EmptyTree EXCEPT ![P_state] = DirNode(0)]
       \/ \E d \in LoadDocs : dst = [EmptyTree EXCEPT ![P_state] = FileNode(d, 0)]
    /\ dst0 = dst
    /\ src = EmptyTree
    /\ clock = StartClock
    /\ pc = "idle"
    /\ err = "nil" /\ faults = 0 /\ chunkSize = 0
    /\ CopyIdle /\ RetryIdle /\ ScanIdle /\ CallIdle /\ MainArgs
    /\ state = NoState /\ sourceEntries = <<>> /\ actions = <<>> /\ actions2 = <<>>
    /\ idx = 0 /\ attempted = <<>> /\ saved = <<>> /\ loaded = NoState
    /\ prevFile = dst[P_state] /\ runs = 0 /\ edits = 0
    /\ stack = <<>> /\ after = "idle"

NextLoad ==
    \/ TestCallsLoadState
    \/ LoadState
    \/ SaveStateStamp
    \/ SaveStateOpenTemp
    \/ SaveStateWriteTemp
    \/ SaveStateRename

SpecLoad == InitLoad /\ [][NextLoad]_vars

\* C29: LoadState on a state file whose content is not one complete document
\* returns an error and no state; a LoadState that returns an error itself
\* (a malformed file, a failed os.Stat or os.ReadFile) leaves the destination
\* as it was; and LoadState goes on to write a fresh state only when the
\* state file does not exist.
C29_Step ==
    /\ (pc = "LoadState" /\ dstDir # "" /\ dst[P_state].kind = "file"
            /\ Len(dst[P_state].data) # 3) =>
          /\ pc' = "loaded" /\ err' # "nil" /\ loaded' = NoState
          /\ dst' = dst
    /\ (pc = "LoadState" /\ pc' = "loaded" /\ err' # "nil") =>
          loaded' = NoState /\ dst' = dst
    /\ (pc = "LoadState" /\ pc' = "SaveState") => dst[P_state].kind = "none"

C29_MalformedStateIsAnError == [][C29_Step]_vars

\* a state file with bytes after the document: the parse error, and the
\* file as it was
C29_Witness ==
    /\ pc = "loaded" /\ err = "ErrSyncStateJSONParse" /\ loaded = NoState
    /\ dst[P_state].kind = "file" /\ Len(dst[P_state].data) = 4
    /\ dst = dst0

InSaveState == pc \in {"save_open", "save_write", "save_rename"}

\* C6: while SaveState runs, and when it is killed at any point before the
\* rename, the canonical state file is the complete previous file (or still
\* absent); the file is never a truncated or mixed document; and a LoadState
\* after the kill returns the previous state, or the fresh empty state when
\* there was none.
C6_AtomicSave ==
    /\ (InSaveState \/ pc = "killed") => dst[P_state] = prevFile
    /\ dst[P_state].kind = "file" => jsonValid(dst[P_state].data)
    /\ (pc = "loaded" /\ after = "killed" /\ err = "nil") =>
          IF prevFile.kind = "file"
          THEN loaded = jsonUnmarshal(prevFile.data)
          ELSE loaded.Version = 1 /\ loaded.Entries = <<>>

\* killed with a partly written temp file next to an existing state file,
\* then loaded
C6_Witness ==
    /\ pc = "loaded" /\ after = "killed" /\ err = "nil"
    /\ prevFile.kind = "file"
    /\ dst[P_tmp].kind = "file" /\ Len(dst[P_tmp].data) = 1
    /\ saved # prevFile.data

\* SaveState was called with a nil state and an empty path on a destination
\* holding a state file; it returned the error of the nil state
C14_Witness ==
    /\ pc = "idle" /\ runs = 1
    /\ state = NoState /\ dstDir = ""
    /\ err = "ErrSyncStateNil"
    /\ dst = dst0 /\ dst[P_state].kind = "file"

\* C7: a successful SaveState(dst, s) followed by LoadState(dst) returns a
\* state equal to s as it is after the save: version, LastSync and entries.
C7_RoundTrip ==
    (pc = "loaded" /\ after = "saved" /\ err = "nil") => loaded = state

\* C28: when SaveState returns an error, whatever the step that failed, the
\* destination holds no temporary state file and the canonical state file is
\* what it was when SaveState was called.
C28_Step ==
    (/\ pc \in {"SaveState", "save_open", "save_write", "save_rename"}
     /\ pc' \notin {"SaveState", "save_open", "save_write", "save_rename", "killed"}
     /\ err' # "nil") =>
        /\ dst'[P_tmp].kind = "none"
        /\ dst'[P_state] = prevFile'

C28_FailedSaveLeavesNoTemp == [][C28_Step]_vars

\* C12: LoadState on a destination without a state file makes a state of
\* version 1 with no entries; when it returns without error it returns that
\* state, the state file exists and holds exactly it, and a LoadState called
\* right after returns the same state.
C12_Step ==
    /\ (pc = "LoadState" /\ pc' = "SaveState") =>
          /\ dst[P_state].kind = "none"
          /\ state'.Version = 1 /\ state'.Entries = <<>>
    /\ (Top(stack) = "LoadState" /\ pc' = "loaded" /\ err' = "nil") =>
          /\ loaded'.Version = 1 /\ loaded'.Entries = <<>>
          /\ dst'[P_state].kind = "file"
          /\ jsonValid(dst'[P_state].data)
          /\ jsonUnmarshal(dst'[P_state].data) = loaded'
    /\ (pc = "LoadState" /\ after = "loaded" /\ err = "nil"
           /\ pc' = "loaded" /\ err' = "nil") => loaded' = loaded

C12_FreshStatePersisted == [][C12_Step]_vars

\* two LoadState calls on a destination that had no state file: the second
\* call has returned the fresh state of the first
C12_Witness ==
    /\ dst0 = EmptyTree /\ runs = 2
    /\ pc = "loaded" /\ after = "loaded" /\ err = "nil"
    /\ loaded.Version = 1 /\ loaded.Entries = <<>> /\ loaded.LastSync = StartClock
    /\ dst[P_state].kind = "file"

\* C13: LoadState of a state file whose schema version is not 1 returns an
\* error and no state.
C13_VersionChecked ==
    (pc = "loaded" /\ HoldsState(dst) /\ jsonUnmarshal(dst[P_state].data).Version # 1) =>
        /\ err # "nil"
        /\ loaded = NoState

-----------------------------------------------------------------------------
(* syncer.go: ScanSource *)

Base(p) == p[Len(p)]

\* shouldExclude(relPath, {".DS_Store"}): the pattern has no wildcard, so the
\* glob match on the base name and the match on the whole path are equalities
shouldExclude(relPath) == Base(relPath) = ".DS_Store" \/ relPath = <<".DS_Store">>

ScanEntry(t, p) ==
    [RelativePath |-> p,
     Mtime        |-> t[p].mtime,
     Size         |-> SizeOf(t, p),
     IsDir        |-> t[p].kind = "dir",
     Checksum     |-> IF t[p].kind = "dir" THEN <<>> ELSE <<"xxhash", t[p].data>>]

\* the snapshot of a walk that meets no error
ScanSource(t) ==
    [p \in {q \in DOMAIN t : t[q].kind # "none" /\ ~shouldExclude(q)} |-> ScanEntry(t, p)]

-----------------------------------------------------------------------------
(* syncer.go: ExecuteActions, one action of the list per step *)

ExecErrors ==
    {"ErrStat", "ErrMkDir", "ErrRead", "ErrWrite", "errOpen", "ErrBatchRead",
     "ErrBatchWrite", "ErrRemoveDir"}

\* fileops.CreateDir
CreateDirMutExclusive(t, name, canFail) ==
    IF t[name].kind = "dir"
    THEN {Outcome("ErrMkDir", t, FALSE)}
    ELSE {Outcome(IF MkdirAll(t, name).ok THEN "nil" ELSE "ErrMkDir",
                  MkdirAll(t, name).tree, FALSE)}

CreateDir(t, name, canFail) ==
    LET mk == MkdirAll(t, name)
    IN  {Outcome(IF mk.ok THEN "nil" ELSE "ErrMkDir", mk.tree, FALSE)}
        \cup (IF canFail THEN {Outcome("ErrMkDir", t, TRUE)} ELSE {})

\* fileops.PathExists: os.Stat, with os.IsNotExist telling a missing path from
\* a path that cannot be examined (a component of it is a regular file)
PathExists(t, name) ==
    IF \E q \in Prefixes(name) : q # name /\ t[q].kind = "file" THEN "ErrStat"
    ELSE IF t[name].kind = "none" THEN "false"
    ELSE "true"

\* fileops.DeletePath
DeletePathMutStatFirst(t, name, canFail) ==
    IF t[name].kind = "none"
    THEN {Outcome("ErrRemoveDir", t, FALSE)}
    ELSE {Outcome(IF RemoveAll(t, name).ok THEN "nil" ELSE "ErrRemoveDir",
                  RemoveAll(t, name).tree, FALSE)}

DeletePath(t, name, canFail) ==
    LET rm == RemoveAll(t, name)
    IN  {Outcome(IF rm.ok THEN "nil" ELSE "ErrRemoveDir", rm.tree, FALSE)}
        \cup (IF canFail THEN {Outcome("ErrRemoveDir", t, TRUE)} ELSE {})

\* the switch of lines 326-356 for one action
DispatchMutUnknownAborts(a, s, t, chunk, canFail) ==
    CASE a.Type = ActionNone   -> {Outcome("nil", t, FALSE)}
      [] a.Type = ActionCreate ->
            IF a.SourceInfo.IsDir
            THEN CreateDir(t, a.RelativePath, canFail)
            ELSE CopyFile(s, t, a.RelativePath, a.RelativePath, chunk, canFail)
      [] a.Type = ActionDelete -> DeletePath(t, a.RelativePath, canFail)
      [] a.Type = ActionUpdate ->
            CopyFile(s, t, a.RelativePath, a.RelativePath, chunk, canFail)
      [] OTHER                 -> {Outcome("ErrRead", t, FALSE)}

Dispatch(a, s, t, chunk, canFail) ==
    CASE a.Type = ActionNone   -> {Outcome("nil", t, FALSE)}
      [] a.Type = ActionCreate ->
            IF a.SourceInfo.IsDir
            THEN CreateDir(t, a.RelativePath, canFail)
            ELSE CopyFile(s, t, a.RelativePath, a.RelativePath, chunk, canFail)
      [] a.Type = ActionDelete -> DeletePath(t, a.RelativePath, canFail)
      [] a.Type = ActionUpdate ->
            CopyFile(s, t, a.RelativePath, a.RelativePath, chunk, canFail)
      [] OTHER                 -> {Outcome("nil", t, FALSE)}

\* where the loop goes after an action returned e: `return err` or the next one
ExecNextMutContinue(e, i) == [pc |-> "ExecuteActions", idx |-> i + 1]

ExecNext(e, i) ==
    IF e = "nil" THEN [pc |-> "ExecuteActions", idx |-> i + 1]
    ELSE [pc |-> "done", idx |-> i]

ExecuteAction ==
    /\ pc = "ExecuteActions"
    /\ idx <= Len(actions)
    /\ \E o \in Dispatch(actions[idx], src, dst, chunkSize, CanFail) :
          /\ dst' = o.tree
          /\ err' = o.err
          /\ faults' = IF o.fault THEN faults + 1 ELSE faults
          /\ pc' = ExecNext(o.err, idx).pc
          /\ idx' = ExecNext(o.err, idx).idx
    /\ attempted' = Append(attempted, idx)
    /\ stack' = IF pc' = "done" THEN <<>> ELSE stack
    /\ UNCHANGED <<src, dst0, clock, chunkSize, exclVars, argVars, retryVars, scanVars, callVars,
                   copyVars>>
    /\ UNCHANGED <<state, sourceEntries, actions, actions2, saved, loaded, prevFile,
                   runs, edits, after>>

-----------------------------------------------------------------------------
(* main: runSync, and the user editing the source tree between runs *)

MaxRuns  == 2
MaxEdits == 2
RunChunk == 2
EditGap  == 1000

SrcFiles == {P_da, P_bad, P_state}
EditLens == {1, 2, 3}

\* a change in a directory's entries updates the directory's mtime
Touch(t, p, now) ==
    IF p = Root THEN t ELSE [t EXCEPT ![p].mtime = now]

InitRun ==
    /\ src = EmptyTree
    /\ dst = EmptyTree
    /\ dst0 = EmptyTree
    /\ clock = StartClock
    /\ pc = "idle"
    /\ err = "nil" /\ faults = 0 /\ chunkSize = RunChunk
    /\ CopyIdle /\ RetryIdle /\ ScanIdle /\ CallIdle /\ MainArgs
    /\ state = NoState /\ sourceEntries = <<>> /\ actions = <<>> /\ actions2 = <<>>
    /\ idx = 0 /\ attempted = <<>> /\ saved = <<>> /\ loaded = NoState
    /\ prevFile = NoNode /\ runs = 0 /\ edits = 0
    /\ stack = <<>> /\ after = "first"

BetweenRuns == pc \in {"idle", "done"}

EditWriteFile ==
    /\ BetweenRuns
    /\ edits < MaxEdits
    /\ \E p \in SrcFiles, n \in EditLens :
          /\ KindOf(src, Dir(p)) = "dir"
          /\ src[p].kind # "dir"
          /\ src[p].data # Bytes(n)
          /\ src' = IF src[p].kind = "none"
                    THEN Touch([src EXCEPT ![p] = FileNode(Bytes(n), clock + EditGap)],
                               Dir(p), clock + EditGap)
                    ELSE [src EXCEPT ![p] = FileNode(Bytes(n), clock + EditGap)]
    /\ clock' = clock + EditGap
    /\ edits' = edits + 1
    /\ pc' = "idle"
    /\ UNCHANGED <<dst, dst0, err, faults, chunkSize, exclVars, argVars, retryVars,
                   scanVars, callVars, copyVars>>
    /\ UNCHANGED <<state, sourceEntries, actions, actions2, idx, attempted, saved,
                   loaded, prevFile, runs, stack, after>>

EditMkdir ==
    /\ BetweenRuns
    /\ edits < MaxEdits
    /\ src[P_d].kind = "none"
    /\ src' = [src EXCEPT ![P_d] = DirNode(clock + EditGap)]
    /\ clock' = clock + EditGap
    /\ edits' = edits + 1
    /\ pc' = "idle"
    /\ UNCHANGED <<dst, dst0, err, faults, chunkSize, exclVars, argVars, retryVars,
                   scanVars, callVars, copyVars>>
    /\ UNCHANGED <<state, sourceEntries, actions, actions2, idx, attempted, saved,
                   loaded, prevFile, runs, stack, after>>

EditRemove ==
    /\ BetweenRuns
    /\ edits < MaxEdits
    /\ \E p \in SrcFiles \cup {P_d} :
          /\ src[p].kind # "none"
          /\ src' = Touch(RemoveAll(src, p).tree, Dir(p), clock + EditGap)
    /\ clock' = clock + EditGap
    /\ edits' = edits + 1
    /\ pc' = "idle"
    /\ UNCHANGED <<dst, dst0, err, faults, chunkSize, exclVars, argVars, retryVars,
                   scanVars, callVars, copyVars>>
    /\ UNCHANGED <<state, sourceEntries, actions, actions2, idx, attempted, saved,
                   loaded, prevFile, runs, stack, after>>

\* main calls runSync; runSync line 51 calls LoadState
StartRun ==
    /\ BetweenRuns
    /\ runs < MaxRuns
    /\ runs' = runs + 1
    /\ after' = IF runs = 0 THEN "first"
                ELSE IF err = "nil"
                     THEN (IF pc = "done" THEN "ok_same" ELSE "ok_edited")
                     ELSE (IF pc = "done" THEN "failed_same" ELSE "failed_edited")
    /\ stack' = <<"runSync">>
    /\ pc' = "LoadState"
    /\ err' = "nil"
    /\ dst0' = dst
    /\ state' = NoState /\ loaded' = NoState
    /\ sourceEntries' = <<>> /\ actions' = <<>> /\ idx' = 0 /\ attempted' = <<>>
    /\ UNCHANGED <<src, dst, clock, faults, chunkSize, exclVars, argVars, retryVars,
                   scanVars, callVars, copyVars>>
    /\ UNCHANGED <<actions2, saved, prevFile, edits>>

\* runSync lines 57-60
RunScanSource ==
    /\ pc = "ScanSource"
    /\ \/ /\ sourceEntries' = ScanSource(src)
          /\ pc' = "CompareStates"
          /\ UNCHANGED <<err, faults, stack>>
       \/ /\ CanFail
          /\ faults' = faults + 1
          /\ err' = "ErrSyncerDirWalk"
          /\ pc' = "done"
          /\ stack' = <<>>
          /\ UNCHANGED sourceEntries
    /\ UNCHANGED <<src, dst, dst0, clock, chunkSize, exclVars, argVars, retryVars,
                   scanVars, callVars, copyVars>>
    /\ UNCHANGED <<state, actions, actions2, idx, attempted, saved, loaded, prevFile,
                   runs, edits, after>>

\* runSync lines 66-69: where runSync goes after CompareStates
AfterCompare(dry) == IF dry THEN "done" ELSE "ExecuteActions"

\* runSync lines 64-69: CompareStates, and the report of a dry run
RunCompareStates ==
    /\ pc = "CompareStates"
    /\ \E so \in Orders(DOMAIN sourceEntries), lo \in Orders(DOMAIN state.Entries) :
          actions' = CompareStates(sourceEntries, state.Entries, so, lo)
    /\ idx' = 1
    /\ pc' = AfterCompare(dryRun)
    /\ stack' = IF pc' = "done" THEN <<>> ELSE stack
    /\ UNCHANGED <<src, dst, dst0, clock, err, faults, chunkSize, exclVars, argVars,
                   retryVars, scanVars, callVars, copyVars>>
    /\ UNCHANGED <<state, sourceEntries, actions2, attempted, saved, loaded, prevFile,
                   runs, edits, after>>

\* ExecuteActions returned nil; runSync lines 84-85
RunSaveState ==
    /\ pc = "ExecuteActions"
    /\ idx > Len(actions)
    /\ state' = [state EXCEPT !.Entries = sourceEntries]
    /\ pc' = "SaveState"
    /\ UNCHANGED <<src, dst, dst0, clock, err, faults, chunkSize, exclVars, argVars,
                   retryVars, scanVars, callVars, copyVars>>
    /\ UNCHANGED <<sourceEntries, actions, actions2, idx, attempted, saved, loaded,
                   prevFile, runs, edits, stack, after>>

NextRun ==
    \/ EditWriteFile
    \/ EditMkdir
    \/ EditRemove
    \/ StartRun
    \/ LoadState
    \/ SaveStateStamp
    \/ SaveStateOpenTemp
    \/ SaveStateWriteTemp
    \/ SaveStateRename
    \/ RunScanSource
    \/ RunCompareStates
    \/ ExecuteAction
    \/ RunSaveState

Spec == InitRun /\ [][NextRun]_vars

-----------------------------------------------------------------------------
(* Properties of a run *)

InRun == Top(stack) = "runSync"

\* the destination holds every path of the scan: files with the source's
\* content, directories as directories
Mirrors(t, scan) ==
    \A p \in DOMAIN scan :
        IF scan[p].IsDir
        THEN t[p].kind = "dir"
        ELSE t[p].kind = "file" /\ t[p].data = src[p].data

\* C1: when the previous runs succeeded and no filesystem operation fails, a
\* run succeeds and ends with the destination holding every path of the scan,
\* none of the paths of the previous state that left the source, and a saved
\* state whose entries are the scan.
C1_RunMirrorsSource ==
    (pc = "done" /\ faults = 0 /\ after \in {"first", "ok_same", "ok_edited"}) =>
        /\ err = "nil"
        /\ Mirrors(dst, sourceEntries)
        /\ \A p \in DOMAIN loaded.Entries \ DOMAIN sourceEntries :
              p \in DOMAIN dst => dst[p].kind = "none"
        /\ HoldsState(dst)
        /\ PersistedEntries(dst) = sourceEntries

\* C23: no action list that CompareStates returns to a run holds an update
\* for a directory, so ExecuteActions never calls CopyFile on a directory.
C23_NoUpdateOfDirectory ==
    \A i \in DOMAIN actions :
        actions[i].Type = ActionUpdate => ~actions[i].SourceInfo.IsDir

\* C8: after a run that succeeded, a second run over the unchanged source
\* produces only none actions and its execution leaves the destination as it
\* was.
C8_SecondRunIdle ==
    (InRun /\ after = "ok_same" /\ pc \in {"ExecuteActions", "SaveState"}) =>
        /\ \A i \in DOMAIN actions : actions[i].Type = ActionNone
        /\ dst = dst0

\* C38: in a run the state file of the destination changes only in a step of
\* SaveState: no action of ExecuteActions creates, overwrites or removes it.
C38_Step ==
    dst'[P_state] # dst[P_state] =>
        pc \in {"SaveState", "save_open", "save_write", "save_rename"}

C38_OnlySaveStateWritesState == [][C38_Step]_vars

RunFailedBeforeSave == pc = "done" /\ err \in ExecErrors \cup {"ErrSyncerDirWalk"}

\* C9: until ExecuteActions has returned success for the whole list, and
\* when the scan or an action failed, the state file holds the entries that
\* LoadState returned at the start of the run.
C9_StateKeptUntilSuccess ==
    ((InRun /\ pc \in {"ScanSource", "CompareStates", "ExecuteActions"})
        \/ RunFailedBeforeSave) =>
        /\ HoldsState(dst)
        /\ PersistedEntries(dst) = loaded.Entries

\* C10: ExecuteActions attempts the actions in list order; at the first
\* failing action it returns that action's error, attempts nothing more, and
\* leaves what the earlier actions did in place.
C10_Step ==
    (pc = "ExecuteActions" /\ idx <= Len(actions)) =>
        /\ attempted = [i \in 1..(idx - 1) |-> i]
        /\ attempted' = Append(attempted, idx)
        /\ err = "nil"
        /\ err' = "nil" => pc' = "ExecuteActions" /\ idx' = idx + 1
        /\ err' # "nil" =>
              /\ err' \in ExecErrors
              /\ pc' = "done"
              /\ \A j \in 1..(idx - 1) :
                    dst'[actions[j].RelativePath] = dst[actions[j].RelativePath]

C10_InOrderStopAtFirstFailure == [][C10_Step]_vars

\* the second action failed; the directory the first one created is there
C10_Witness ==
    /\ pc = "done"
    /\ err \in ExecErrors
    /\ attempted = <<1, 2>>
    /\ actions[1].Type = ActionCreate
    /\ actions[1].RelativePath = P_d
    /\ dst0[P_d].kind = "none"
    /\ dst[P_d].kind = "dir"

-----------------------------------------------------------------------------
(* A run that fails part-way, and the run after it.  The destination starts *)
(* as a successful run over the old source left it; the source has been     *)
(* edited since.                                                            *)

OldMtime == 1000
NewMtime == 3000

\* a source tree: the directory d (absent when dm < 0) and the file d/a of an
\* bytes (absent when an < 0)
SourceTree(dm, an, am) ==
    [p \in TreePaths |->
        IF p = P_d /\ dm >= 0 THEN DirNode(dm)
        ELSE IF p = P_da /\ an >= 0 THEN FileNode(Bytes(an), am)
        ELSE NoNode]

\* the old source and what the user made of it
RerunPairs ==
    {<<SourceTree(OldMtime, 3, OldMtime), SourceTree(OldMtime, n, NewMtime)>> : n \in {1, 2, 3}}
    \cup {<<SourceTree(OldMtime, n, OldMtime), SourceTree(NewMtime, -1, 0)>> : n \in {2, 3}}
    \cup {<<SourceTree(OldMtime, 3, OldMtime), SourceTree(-1, -1, 0)>>,
          <<SourceTree(OldMtime, 3, OldMtime), SourceTree(OldMtime, 3, OldMtime)>>,
          <<SourceTree(-1, -1, 0), SourceTree(NewMtime, 2, NewMtime)>>,
          <<SourceTree(-1, -1, 0), SourceTree(NewMtime, 3, NewMtime)>>}

\* the destination after a successful run over the source tree t: the
\* objects ExecuteActions made and the state runSync saved
Synced(t) ==
    [p \in TreePaths |->
        IF p = P_state
        THEN FileNode(jsonMarshal([Version |-> 1, LastSync |-> OldMtime,
                                   Entries |-> ScanSource(t)]), 0)
        ELSE IF t[p].kind = "file" THEN FileNode(t[p].data, 0)
        ELSE IF t[p].kind = "dir" THEN DirNode(0)
        ELSE NoNode]

InitRerun ==
    /\ \E pr \in RerunPairs : src = pr[2] /\ dst \in {Synced(pr[1]), EmptyTree}
    /\ dst0 = dst
    /\ srcDir = "src" /\ dstDir = "dst" /\ dryRun \in BOOLEAN /\ checksum = FALSE
    /\ clock = StartClock
    /\ pc = "idle"
    /\ err = "nil" /\ faults = 0 /\ chunkSize = RunChunk
    /\ CopyIdle /\ RetryIdle /\ ScanIdle /\ CallIdle
    /\ state = NoState /\ sourceEntries = <<>> /\ actions = <<>> /\ actions2 = <<>>
    /\ idx = 0 /\ attempted = <<>> /\ saved = <<>> /\ loaded = NoState
    /\ prevFile = NoNode /\ runs = 0 /\ edits = 0
    /\ stack = <<>> /\ after = "first"

NextRerun ==
    \/ StartRun
    \/ LoadState
    \/ SaveStateStamp
    \/ SaveStateOpenTemp
    \/ SaveStateWriteTemp
    \/ SaveStateRename
    \/ RunScanSource
    \/ RunCompareStates
    \/ ExecuteAction
    \/ RunSaveState

SpecRerun == InitRerun /\ [][NextRerun]_vars

\* C11: when a run failed and the next run over the unchanged source returns
\* no error, the destination holds every path of the scan (files with the
\* source's content) and none of the paths that left the source.
C11_RerunMirrors ==
    (pc = "done" /\ after = "failed_same" /\ err = "nil" /\ ~dryRun) =>
        /\ Mirrors(dst, sourceEntries)
        /\ \A p \in DOMAIN loaded.Entries \ DOMAIN sourceEntries : dst[p].kind = "none"

\* C19: a run in dry-run mode leaves the destination tree, the state file
\* included, exactly as it was when the run started.
C19_DryRunChangesNothing ==
    (dryRun /\ runs > 0) => dst = dst0

-----------------------------------------------------------------------------
(* syncer.go: retryableOpWithResult, one invocation of op per step *)

maxRetries == 5

\* the rootDir arguments of the scan tests: "", the source tree, a file, and
\* a path that does not exist
ScanRoots == {"", "src", "src/f", "src/none"}

\* what os.Stat finds at the rootDir argument (line 86: fileInfo.IsDir())
RootKindMutAllDirs(dir) ==
    IF dir \in {"src", "src/f"} THEN "dir" ELSE "none"

RootKind(dir) ==
    CASE dir = "src"   -> "dir"
      [] dir = "src/f" -> "file"
      [] OTHER         -> "none"

\* what one invocation of op may return: exists (lines 166-175), d.Info()
\* (line 117), generateChecksum (lines 203-242)
ProbeResults(oper) ==
    CASE oper = "exists" ->
            (IF RootKind(srcDir) = "none" THEN {"ErrSyncerNotExist"} ELSE {"nil"})
            \cup {"ErrSyncerRead"}
      [] oper = "file_info" -> {"nil", "ErrNotExist", "ErrPermission"}
      [] oper = "checksum"  ->
            {"nil", "ErrSyncerSrcNotExists", "ErrSyncerRead", "ErrSyncerChecksum"}
      [] OTHER -> {"nil"}

\* line 258: errors.Is(err, fs.ErrNotExist) || errors.Is(err, ErrSyncerNotExist)
NotExistMutNever(e) == FALSE

NotExist(e) == e \in {"ErrNotExist", "ErrSyncerNotExist"}

\* line 272 (and 254, 259): what the call returns
RetryReturns(e) ==
    /\ err' = e
    /\ pc' = "retried"

\* the caller starts a retried operation
RetryStart(oper) ==
    /\ operation' = oper
    /\ attempt' = 0 /\ lastErr' = "nil" /\ probes' = <<>> /\ sleeps' = <<>>
    /\ pc' = "retry"

\* lines 251-270: one iteration of the loop
RetryInvoke ==
    /\ pc = "retry"
    /\ attempt < maxRetries
    /\ \E r \in ProbeResults(operation) :
          /\ probes' = Append(probes, r)
          /\ IF r = "nil" \/ NotExist(r)
             THEN /\ RetryReturns(r)
                  /\ UNCHANGED <<attempt, lastErr, sleeps>>
             ELSE /\ lastErr' = r
                  /\ sleeps' = Append(sleeps, 10 * (attempt + 1))
                  /\ attempt' = attempt + 1
                  /\ UNCHANGED <<pc, err>>
    /\ UNCHANGED <<src, dst, dst0, clock, faults, chunkSize, exclVars, runVars,
                   copyVars, argVars, operation, scanVars, callVars>>

\* line 272: the loop is over
RetryExhausted ==
    /\ pc = "retry"
    /\ attempt >= maxRetries
    /\ RetryReturns(lastErr)
    /\ UNCHANGED <<src, dst, dst0, clock, faults, chunkSize, exclVars, runVars,
                   copyVars, argVars, retryVars, scanVars, callVars>>

-----------------------------------------------------------------------------
(* syncer.go: ScanSource, step by step *)

\* the nil map ScanSource returns with an error
NilEntries == [nil |-> TRUE]

\* the order in which filepath.WalkDir visits the names: lexical, a
\* directory before its content
LexOrder == <<P_state, P_tmp, P_badU, P_bad, P_d, P_dds, P_ddsx, P_da>>

\* the objects of tree t below the root, in the order of the walk
WalkOrder(t) ==
    LET reachable(p) ==
            /\ t[p].kind # "none"
            /\ \A q \in Prefixes(p) : q # p => t[q].kind = "dir"
    IN  SelectSeq(LexOrder, reachable)

\* line 111: the callback returns at once for the root and for excluded paths
SkipEntryMutRootOnly(relPath) == relPath = Root

SkipEntry(relPath) == relPath = Root \/ shouldExclude(relPath)

\* lines 129-136 and 149: the entry of path p; hashed tells whether
\* generateChecksum returned a sum
EntryOf(t, p, hashed) ==
    IF hashed THEN ScanEntry(t, p) ELSE [ScanEntry(t, p) EXCEPT !.Checksum = <<>>]

\* ScanSource returns (result, e)
ScanReturns(result, e) ==
    /\ sourceEntries' = result
    /\ err' = e
    /\ pc' = "scanned"

\* the callback returned nil for Head(walk): WalkDir reads a directory next,
\* and goes on to the next name after a file
CallbackReturns ==
    IF KindOf(src, Head(walk)) = "dir"
    THEN pc' = "readdir" /\ walk' = walk
    ELSE pc' = "walk" /\ walk' = Tail(walk)

\* lines 75-82
ScanSourceStart ==
    /\ pc = "ScanSource"
    /\ IF srcDir = ""
       THEN /\ ScanReturns(NilEntries, "ErrEmptySrcDir")
            /\ UNCHANGED retryVars
       ELSE /\ RetryStart("exists")
            /\ UNCHANGED <<sourceEntries, err>>
    /\ UNCHANGED <<src, dst, dst0, clock, faults, chunkSize, exclVars, copyVars,
                   argVars, scanVars, callVars>>
    /\ UNCHANGED <<state, actions, actions2, idx, attempted, saved, loaded, prevFile,
                   runs, edits, stack, after>>

\* lines 83-92
ScanAfterExists ==
    /\ pc = "retried" /\ operation = "exists"
    /\ IF err # "nil"
       THEN /\ ScanReturns(NilEntries, "ErrSyncerSrcNotExists")
            /\ UNCHANGED scanVars
       ELSE IF RootKind(srcDir) # "dir"
       THEN /\ ScanReturns(NilEntries, "ErrEmptySrcNotADir")
            /\ UNCHANGED scanVars
       ELSE /\ entries' = <<>>
            /\ walk' = <<Root>> \o WalkOrder(src)
            /\ visited' = <<>>
            /\ pc' = "walk"
            /\ UNCHANGED <<sourceEntries, err, walkErrIn>>
    /\ UNCHANGED <<src, dst, dst0, clock, faults, chunkSize, exclVars, copyVars,
                   argVars, retryVars, callVars>>
    /\ UNCHANGED <<state, actions, actions2, idx, attempted, saved, loaded, prevFile,
                   runs, edits, stack, after>>

\* lines 92-118: the callback is called for the next name
WalkVisit ==
    /\ pc = "walk" /\ walk # <<>>
    /\ visited' = Append(visited, [path |-> Head(walk), hashed |-> FALSE])
    /\ IF SkipEntry(Head(walk))
       THEN /\ CallbackReturns
            /\ UNCHANGED retryVars
       ELSE /\ RetryStart("file_info")
            /\ walk' = walk
    /\ UNCHANGED <<src, dst, dst0, clock, err, faults, chunkSize, exclVars, copyVars, argVars,
                   entries, walkErrIn, callVars, runVars>>

\* lines 119-141 and 152: d.Info() has been tried
ScanAfterFileInfo ==
    /\ pc = "retried" /\ operation = "file_info"
    /\ err' = "nil"
    /\ IF err # "nil"
       THEN /\ CallbackReturns                 \* the entry is skipped
            /\ UNCHANGED <<entries, retryVars>>
       ELSE IF KindOf(src, Head(walk)) = "dir"
       THEN /\ entries' = (Head(walk) :> EntryOf(src, Head(walk), FALSE)) @@ entries
            /\ CallbackReturns
            /\ UNCHANGED retryVars
       ELSE /\ RetryStart("checksum")
            /\ UNCHANGED <<entries, walk>>
    /\ UNCHANGED <<src, dst, dst0, clock, faults, chunkSize, exclVars, copyVars,
                   argVars, visited, walkErrIn, callVars, runVars>>

\* lines 142-154: generateChecksum has been tried
ScanAfterChecksum ==
    /\ pc = "retried" /\ operation = "checksum"
    /\ err' = "nil"
    /\ IF err = "ErrSyncerNotExist"
       THEN UNCHANGED <<entries, visited>>       \* the entry is skipped
       ELSE /\ entries' = (Head(walk) :> EntryOf(src, Head(walk), err = "nil")) @@ entries
            /\ visited' = [visited EXCEPT ![Len(visited)].hashed = (err = "nil")]
    /\ CallbackReturns
    /\ UNCHANGED <<src, dst, dst0, clock, faults, chunkSize, exclVars, copyVars,
                   argVars, retryVars, walkErrIn, callVars, runVars>>

\* the errors a failing ReadDir of WalkDir may report: fs.ErrPermission and
\* one that is not (os.ErrNotExist, the directory was removed after its visit)
ReadDirErrors == {"ErrPermission", "ErrNotExist"}

\* WalkDir reads the directory it has just visited; when that fails it calls
\* the callback a second time for that directory, with the error
WalkReadDir ==
    /\ pc = "readdir"
    /\ \/ /\ walk' = Tail(walk)
          /\ pc' = "walk"
          /\ UNCHANGED <<faults, walkErrIn>>
       \/ /\ CanFail
          /\ faults' = faults + 1
          /\ walkErrIn' \in ReadDirErrors
          /\ pc' = "walkerr"
          /\ UNCHANGED walk
    /\ UNCHANGED <<src, dst, dst0, clock, err, chunkSize, exclVars, copyVars, argVars,
                   retryVars, visited, entries, callVars, runVars>>

\* line 94: errors.Is(walkErrIn, fs.ErrPermission)
IsPermissionMutAlways(e) == TRUE

IsPermission(e) == e = "ErrPermission"

\* lines 93-100 and 157-159: the callback is called with walkErrIn; fs.SkipDir
\* makes WalkDir leave the directory out, any other error ends the walk
WalkErrCallback ==
    /\ pc = "walkerr"
    /\ walkErrIn' = "nil"
    /\ IF IsPermission(walkErrIn)
       THEN /\ walk' = SelectSeq(Tail(walk), LAMBDA q : ~IsUnder(q, Head(walk)))
            /\ pc' = "walk"
            /\ UNCHANGED <<err, sourceEntries>>
       ELSE /\ ScanReturns(NilEntries, "ErrSyncerDirWalk")
            /\ UNCHANGED walk
    /\ UNCHANGED <<src, dst, dst0, clock, faults, chunkSize, exclVars, copyVars, argVars,
                   retryVars, visited, entries, callVars>>
    /\ UNCHANGED <<state, actions, actions2, idx, attempted, saved, loaded, prevFile,
                   runs, edits, stack, after>>

\* lines 157-162
WalkDone ==
    /\ pc = "walk" /\ walk = <<>>
    /\ ScanReturns(entries, "nil")
    /\ UNCHANGED <<src, dst, dst0, clock, faults, chunkSize, exclVars, copyVars,
                   argVars, retryVars, scanVars, callVars>>
    /\ UNCHANGED <<state, actions, actions2, idx, attempted, saved, loaded, prevFile,
                   runs, edits, stack, after>>

\* the trees the scan tests build
ScanTrees ==
    {EmptyTree,
     SourceTree(OldMtime, -1, 0),
     SourceTree(OldMtime, 2, OldMtime),
     [SourceTree(OldMtime, 2, OldMtime) EXCEPT ![P_dds] = FileNode(Bytes(1), OldMtime)],
     [SourceTree(OldMtime, 2, OldMtime) EXCEPT ![P_dds] = DirNode(OldMtime),
                                              ![P_ddsx] = FileNode(Bytes(1), OldMtime)],
     [SourceTree(OldMtime, 2, OldMtime) EXCEPT ![P_bad] = FileNode(Bytes(1), OldMtime)]}

InitScan ==
    /\ srcDir \in ScanRoots
    /\ src \in (IF srcDir = "src" THEN ScanTrees ELSE {EmptyTree})
    /\ dst = EmptyTree /\ dst0 = EmptyTree
    /\ dstDir = "dst" /\ dryRun = FALSE /\ checksum = FALSE
    /\ clock = StartClock
    /\ pc = "ScanSource"
    /\ err = "nil" /\ faults = 0 /\ chunkSize = RunChunk
    /\ CopyIdle /\ RetryIdle /\ ScanIdle /\ CallIdle
    /\ state = NoState /\ sourceEntries = <<>> /\ actions = <<>> /\ actions2 = <<>>
    /\ idx = 0 /\ attempted = <<>> /\ saved = <<>> /\ loaded = NoState
    /\ prevFile = NoNode /\ runs = 0 /\ edits = 0
    /\ stack = <<>> /\ after = "idle"

NextScan ==
    \/ ScanSourceStart
    \/ RetryInvoke
    \/ RetryExhausted
    \/ ScanAfterExists
    \/ WalkVisit
    \/ ScanAfterFileInfo
    \/ ScanAfterChecksum
    \/ WalkReadDir
    \/ WalkErrCallback
    \/ WalkDone

SpecScan == InitScan /\ [][NextScan]_vars

C16_Step ==
    /\ (pc = "ScanSource" /\ srcDir = "") =>
          /\ pc' = "scanned" /\ err' = "ErrEmptySrcDir"
          /\ sourceEntries' = NilEntries
          /\ probes' = <<>> /\ visited' = <<>>
    /\ (pc = "retried" /\ operation = "exists" /\ err # "nil") =>
          /\ pc' = "scanned" /\ err' = "ErrSyncerSrcNotExists"
          /\ sourceEntries' = NilEntries
          /\ visited' = <<>>
    /\ (pc = "retried" /\ operation = "exists" /\ err = "nil" /\ srcDir = "src/f") =>
          /\ pc' = "scanned" /\ err' = "ErrEmptySrcNotADir"
          /\ sourceEntries' = NilEntries
          /\ visited' = <<>>

C16_ScanPreconditions == [][C16_Step]_vars

\* the root is a file: the probe failed once, then found it
C16_Witness ==
    /\ pc = "scanned" /\ srcDir = "src/f"
    /\ probes = <<"ErrSyncerRead", "nil">>
    /\ err = "ErrEmptySrcNotADir"
    /\ sourceEntries = NilEntries /\ visited = <<>>

C30_Step ==
    /\ \A i \in DOMAIN probes :
          probes[i] \in {"ErrNotExist", "ErrSyncerNotExist", "ErrSyncerSrcNotExists"} =>
              i = Len(probes)
    /\ (pc = "retried" /\ operation = "checksum" /\ err = "ErrSyncerSrcNotExists") =>
          Head(walk) \notin DOMAIN entries'

C30_GoneIsNotRetried == [][C30_Step]_vars

\* C31: when the retried checksum of a file ended with an error, whatever the
\* error, the callback stores no entry for that file and the walk goes on
\* with the next name; the scan does not fail for it.
C31_Step ==
    (pc = "retried" /\ operation = "checksum" /\ err # "nil") =>
        /\ Head(walk) \notin DOMAIN entries'
        /\ entries' = entries
        /\ pc' = "walk" /\ walk' = Tail(walk)
        /\ err' = "nil"

C31_FailedChecksumSkipsFile == [][C31_Step]_vars

\* C32: a snapshot returned by ScanSource has no entry for an excluded
\* directory and none for a path beneath one, whatever the name of that path.
C32_ExcludedSubtreeAbsent ==
    (pc = "scanned" /\ err = "nil") =>
        \A p \in DOMAIN sourceEntries :
            \A q \in Prefixes(p) : ~(Base(q) = ".DS_Store" /\ src[q].kind = "dir")

\* C33: when reading a directory fails with a permission error, the callback
\* leaves the entries collected so far as they are (the entry of that
\* directory included), drops exactly the paths beneath that directory from
\* the walk and lets the walk go on without an error; when reading fails with
\* any other error, ScanSource returns ErrSyncerDirWalk and a nil snapshot.
C33_Step ==
    pc = "walkerr" =>
        IF walkErrIn = "ErrPermission"
        THEN /\ entries' = entries
             /\ pc' = "walk" /\ err' = err
             /\ walk' = SelectSeq(Tail(walk), LAMBDA q : ~IsUnder(q, Head(walk)))
        ELSE /\ pc' = "scanned" /\ err' = "ErrSyncerDirWalk"
             /\ sourceEntries' = NilEntries

C40_SleepsOnlyBetweenAttempts ==
    /\ \A k \in DOMAIN sleeps : sleeps[k] = 10 * k
    /\ pc = "retried" => Len(sleeps) = Len(probes) - 1

-----------------------------------------------------------------------------
(* syncer.go: shouldExclude with any list of patterns.  Here a string is a  *)
(* sequence of characters: <<"a", "/", "b">> is a/b.                        *)

\* strings.HasSuffix(s, "/"), strings.TrimSuffix(s, "/"), strings.HasPrefix
HasSuffixSlash(s)  == s # <<>> /\ s[Len(s)] = "/"
TrimSuffixSlash(s) == IF HasSuffixSlash(s) THEN SubSeq(s, 1, Len(s) - 1) ELSE s
HasPrefix(s, pre)  == Len(pre) <= Len(s) /\ SubSeq(s, 1, Len(pre)) = pre

\* filepath.Base: trailing separators are dropped; "." for the empty path,
\* "/" for a path of separators only
RECURSIVE TrimSlashes(_)
TrimSlashes(s) == IF HasSuffixSlash(s) THEN TrimSlashes(SubSeq(s, 1, Len(s) - 1)) ELSE s

FilepathBase(s) ==
    IF s = <<>> THEN <<".">>
    ELSE LET t     == TrimSlashes(s)
             slash == {i \in DOMAIN t : t[i] = "/"}
             from  == IF slash = {} THEN 1
                      ELSE (CHOOSE i \in slash : \A j \in slash : j <= i) + 1
         IN  IF t = <<>> THEN <<"/">> ELSE SubSeq(t, from, Len(t))

\* filepath.Match: '*' matches any run of non-separators, '?' one
\* non-separator; a '[' that no ']' closes makes the pattern malformed, and
\* Match then returns false with ErrBadPattern
RECURSIVE Glob(_, _)
Glob(pattern, name) ==
    IF pattern = <<>> THEN name = <<>>
    ELSE CASE Head(pattern) = "*" ->
                \E k \in 0..Len(name) :
                    /\ \A i \in 1..k : name[i] # "/"
                    /\ Glob(Tail(pattern), SubSeq(name, k + 1, Len(name)))
           [] Head(pattern) = "?" ->
                name # <<>> /\ Head(name) # "/" /\ Glob(Tail(pattern), Tail(name))
           [] OTHER ->
                name # <<>> /\ Head(name) = Head(pattern)
                    /\ Glob(Tail(pattern), Tail(name))

Malformed(pattern) ==
    \E i \in DOMAIN pattern :
        pattern[i] = "[" /\ ~\E j \in DOMAIN pattern : j > i + 1 /\ pattern[j] = "]"

\* matched, _ := filepath.Match(pattern, name)
Match(pattern, name) == ~Malformed(pattern) /\ Glob(pattern, name)

\* lines 180-196: the body of the loop for one pattern
PatternExcludesMutBaseOnly(pattern, path) ==
    IF HasSuffixSlash(pattern)
    THEN LET dirPattern == TrimSuffixSlash(pattern)
         IN  path = dirPattern \/ HasPrefix(path, dirPattern \o <<"/">>)
    ELSE Match(pattern, FilepathBase(path))

PatternExcludes(pattern, path) ==
    IF HasSuffixSlash(pattern)
    THEN LET dirPattern == TrimSuffixSlash(pattern)
         IN  path = dirPattern \/ HasPrefix(path, dirPattern \o <<"/">>)
    ELSE Match(pattern, FilepathBase(path)) \/ pattern = path

\* lines 177-199: the loop returns true at the first pattern that matches
RECURSIVE shouldExcludeWith(_, _)
shouldExcludeWith(path, patterns) ==
    IF patterns = <<>> THEN FALSE
    ELSE IF PatternExcludes(Head(patterns), path) THEN TRUE
    ELSE shouldExcludeWith(path, Tail(patterns))

MaxMatchers == 2

\* the paths and patterns of TestShouldExclude, shortened to two letters
ExclPaths ==
    {<<>>, <<"a">>, <<"b">>, <<"a", "b">>, <<"a", "/", "b">>, <<"a", "/", "a">>,
     <<"b", "/", "a">>, <<"a", "/">>, <<"a", "b", "/", "a">>}

ExclPatterns ==
    {<<"a">>, <<"b">>, <<"a", "/">>, <<"a", "b", "/">>, <<"/">>, <<"a", "/", "b">>,
     <<"*">>, <<"?">>, <<"a", "*">>, <<"*", "b">>, <<"a", "?">>,
     <<"[">>, <<"[", "a">>}

InitExclude ==
    /\ exclPath \in ExclPaths
    /\ matchers \in UNION {[1..n -> ExclPatterns] : n \in 0..MaxMatchers}
    /\ excluded = "none"
    /\ walk = <<>> /\ visited = <<>> /\ entries = <<>> /\ walkErrIn = "nil"
    /\ CallIdle
    /\ pc = "shouldExclude"
    /\ src = EmptyTree /\ dst = EmptyTree /\ dst0 = EmptyTree
    /\ clock = 0 /\ err = "nil" /\ faults = 0 /\ chunkSize = 0
    /\ CopyIdle /\ RetryIdle /\ MainArgs
    /\ state = NoState /\ sourceEntries = <<>> /\ actions = <<>> /\ actions2 = <<>>
    /\ idx = 0 /\ attempted = <<>> /\ saved = <<>> /\ loaded = NoState
    /\ prevFile = NoNode /\ runs = 0 /\ edits = 0
    /\ stack = <<>> /\ after = "idle"

CallShouldExclude ==
    /\ pc = "shouldExclude"
    /\ excluded' = shouldExcludeWith(exclPath, matchers)
    /\ pc' = "returned"
    /\ UNCHANGED <<src, dst, dst0, clock, err, faults, chunkSize, runVars, copyVars,
                   argVars, retryVars, scanVars, callVars, exclPath, matchers>>

NextExclude == CallShouldExclude

SpecExclude == InitExclude /\ [][NextExclude]_vars

\* C18: shouldExclude returns true exactly when some pattern of the list
\* matches: a pattern ending in '/' matches a path that equals the pattern
\* without its last separator or starts with the whole pattern; any other
\* pattern matches a path whose base name it glob-matches or that it equals.
\* The call returns a value for every input (false for the empty list and
\* for a malformed glob that nothing else matches) and changes nothing else.
C18_Step ==
    pc = "shouldExclude" =>
        /\ excluded' \in BOOLEAN
        /\ excluded' <=>
              \E i \in DOMAIN matchers :
                  LET pattern == matchers[i]
                  IN  IF pattern # <<>> /\ pattern[Len(pattern)] = "/"
                      THEN \/ exclPath = SubSeq(pattern, 1, Len(pattern) - 1)
                           \/ /\ Len(exclPath) >= Len(pattern)
                              /\ SubSeq(exclPath, 1, Len(pattern)) = pattern
                      ELSE \/ Match(pattern, FilepathBase(exclPath))
                           \/ pattern = exclPath
        /\ matchers = <<>> => excluded' = FALSE
        /\ UNCHANGED <<src, dst, exclPath, matchers>>

C18_ExcludeExactlyOnMatch == [][C18_Step]_vars

\* the second pattern of the list equals the whole path a/b, which no glob on
\* the base name b matches
C18_Witness ==
    /\ pc = "returned" /\ excluded = TRUE
    /\ exclPath = <<"a", "/", "b">>
    /\ matchers = << <<"[">>, <<"a", "/", "b">> >>

-----------------------------------------------------------------------------
(* syncer.go: generateChecksum, step by step, beside a process that writes *)
(* to the file; filePath is d/a of the source tree                         *)

\* the longest content of the file, the bytes one Read of io.Copy returns at
\* most, the writes of the other process and the clock ticks during the call
MaxSumLen == 3
HashChunk == 2
MaxWrites == 2
MaxTicks  == 2

\* os.FileInfo: ModTime() and Size()
InfoOf(t, p) == [mtime |-> t[p].mtime, size |-> SizeOf(t, p)]

\* line 230: currentInfo.ModTime() != initialMtime || currentInfo.Size() != initialSize
ModifiedMutMtimeOnly(cur, ini) == cur.mtime # ini.mtime

Modified(cur, ini) == cur.mtime # ini.mtime \/ cur.size # ini.size

\* generateChecksum returns (sum, e)
ChecksumReturns(sum, e) ==
    /\ checksumBytes' = sum
    /\ err' = e
    /\ pc' = "summed"

SumContents == {Bytes(n) : n \in 0..MaxSumLen} \cup {OldBytes(n) : n \in 1..MaxSumLen}

InitChecksum ==
    /\ clock = StartClock
    /\ \/ src = [EmptyTree EXCEPT ![P_d] = DirNode(StartClock)]
       \/ \E c \in SumContents :
             src = [EmptyTree EXCEPT ![P_d] = DirNode(StartClock),
                                     ![P_da] = FileNode(c, StartClock)]
    /\ dst = EmptyTree /\ dst0 = EmptyTree
    /\ pc = "generateChecksum"
    /\ err = "nil" /\ faults = 0 /\ chunkSize = 0
    /\ CopyIdle /\ RetryIdle /\ ScanIdle /\ CallIdle /\ MainArgs
    /\ state = NoState /\ sourceEntries = <<>> /\ actions = <<>> /\ actions2 = <<>>
    /\ idx = 0 /\ attempted = <<>> /\ saved = <<>> /\ loaded = NoState
    /\ prevFile = NoNode /\ runs = 0 /\ edits = 0
    /\ stack = <<>> /\ after = "idle"

\* lines 204-210: the first exists(filePath)
ChecksumStat ==
    /\ pc = "generateChecksum"
    /\ \/ /\ src[P_da].kind = "file"
          /\ initialInfo' = InfoOf(src, P_da)
          /\ pc' = "os.Open"
          /\ UNCHANGED <<err, faults, checksumBytes>>
       \/ /\ src[P_da].kind # "file"
          /\ ChecksumReturns(NoSum, "ErrSyncerSrcNotExists")
          /\ UNCHANGED <<faults, initialInfo>>
       \/ /\ CanFail
          /\ faults' = faults + 1
          /\ ChecksumReturns(NoSum, "ErrSyncerSrcNotExists")
          /\ UNCHANGED initialInfo
    /\ UNCHANGED <<src, dst, dst0, clock, chunkSize, exclVars, argVars, retryVars,
                   scanVars, copyVars, runVars, currentInfo, hash, target>>

\* lines 212-215: os.Open(filePath)
ChecksumOpen ==
    /\ pc = "os.Open"
    /\ \/ /\ src[P_da].kind = "file"
          /\ pc' = "io.Copy"
          /\ UNCHANGED <<err, faults, checksumBytes>>
       \/ /\ src[P_da].kind # "file"
          /\ ChecksumReturns(NoSum, "ErrSyncerRead")
          /\ UNCHANGED faults
       \/ /\ CanFail
          /\ faults' = faults + 1
          /\ ChecksumReturns(NoSum, "ErrSyncerRead")
    /\ UNCHANGED <<src, dst, dst0, clock, chunkSize, exclVars, argVars, retryVars,
                   scanVars, copyVars, runVars, initialInfo, currentInfo, hash, target>>

\* lines 222-225: one Read of io.Copy at the offset the file has reached,
\* which is the number of bytes hashed so far
ChecksumCopy ==
    /\ pc = "io.Copy"
    /\ LET n == Min(HashChunk, Len(src[P_da].data) - Len(hash))
       IN  \/ /\ n > 0
              /\ hash' = hash \o SubSeq(src[P_da].data, Len(hash) + 1, Len(hash) + n)
              /\ UNCHANGED <<pc, err, faults, checksumBytes>>
           \/ /\ n <= 0                               \* io.EOF
              /\ pc' = "exists"
              /\ UNCHANGED <<hash, err, faults, checksumBytes>>
           \/ /\ CanFail
              /\ faults' = faults + 1
              /\ ChecksumReturns(NoSum, "ErrSyncerChecksum")
              /\ UNCHANGED hash
    /\ UNCHANGED <<src, dst, dst0, clock, chunkSize, exclVars, argVars, retryVars,
                   scanVars, copyVars, runVars, initialInfo, currentInfo, target>>

\* lines 227-241: the second exists(filePath) and the comparison
ChecksumStatAgain ==
    /\ pc = "exists"
    /\ \/ /\ src[P_da].kind = "file"
          /\ currentInfo' = InfoOf(src, P_da)
          /\ IF Modified(currentInfo', initialInfo)
             THEN ChecksumReturns(NoSum, "ErrSyncerChecksum")
             ELSE ChecksumReturns(<<"xxhash", hash>>, "nil")
          /\ UNCHANGED faults
       \/ /\ src[P_da].kind # "file"
          /\ ChecksumReturns(NoSum, "ErrSyncerSrcNotExists")
          /\ UNCHANGED <<faults, currentInfo>>
       \/ /\ CanFail
          /\ faults' = faults + 1
          /\ ChecksumReturns(NoSum, "ErrSyncerSrcNotExists")
          /\ UNCHANGED currentInfo
    /\ UNCHANGED <<src, dst, dst0, clock, chunkSize, exclVars, argVars, retryVars,
                   scanVars, copyVars, runVars, initialInfo, hash, target>>

\* another process writes the file in place (os.WriteFile): new content, and
\* the time of the write as its mtime
WriterWrites ==
    /\ pc # "summed"
    /\ edits < MaxWrites
    /\ src[P_da].kind = "file"
    /\ \E c \in SumContents :
          /\ c # src[P_da].data
          /\ src' = [src EXCEPT ![P_da] = FileNode(c, clock)]
    /\ edits' = edits + 1
    /\ UNCHANGED <<dst, dst0, clock, pc, err, faults, chunkSize, exclVars, argVars,
                   retryVars, scanVars, callVars, copyVars>>
    /\ UNCHANGED <<state, sourceEntries, actions, actions2, idx, attempted, saved,
                   loaded, prevFile, runs, stack, after>>

\* another process removes the file; while io.Copy holds the file open the
\* removal shows only at the second exists, so it is taken then
WriterRemoves ==
    /\ pc \in {"generateChecksum", "os.Open", "exists"}
    /\ edits < MaxWrites
    /\ src[P_da].kind = "file"
    /\ src' = [src EXCEPT ![P_da] = NoNode]
    /\ edits' = edits + 1
    /\ UNCHANGED <<dst, dst0, clock, pc, err, faults, chunkSize, exclVars, argVars,
                   retryVars, scanVars, callVars, copyVars>>
    /\ UNCHANGED <<state, sourceEntries, actions, actions2, idx, attempted, saved,
                   loaded, prevFile, runs, stack, after>>

\* time passes
ChecksumTick ==
    /\ pc # "summed"
    /\ clock < StartClock + MaxTicks
    /\ clock' = clock + 1
    /\ UNCHANGED <<src, dst, dst0, pc, err, faults, chunkSize, exclVars, argVars,
                   retryVars, scanVars, callVars, copyVars, runVars>>

NextChecksum ==
    \/ ChecksumStat
    \/ ChecksumOpen
    \/ ChecksumCopy
    \/ ChecksumStatAgain
    \/ WriterWrites
    \/ WriterRemoves
    \/ ChecksumTick

SpecChecksum == InitChecksum /\ [][NextChecksum]_vars

\* C34: generateChecksum returns a fingerprint only with a nil error and only
\* when the mtime and size of its first stat equal those of its second stat;
\* whenever the two stats differ in mtime or in size, whatever the other
\* process did and when, it returns an error and a nil fingerprint.
C34_FingerprintOnlyIfUnchanged ==
    pc = "summed" =>
        /\ checksumBytes # NoSum =>
              /\ err = "nil"
              /\ initialInfo # NoInfo
              /\ currentInfo = initialInfo
        /\ (initialInfo # NoInfo /\ currentInfo # NoInfo /\ currentInfo # initialInfo) =>
              /\ err = "ErrSyncerChecksum"
              /\ checksumBytes = NoSum
        /\ err # "nil" => checksumBytes = NoSum

\* the file was rewritten with another length within the same clock tick,
\* between the two stats: same mtime, other size, and the call failed
C34_Witness ==
    /\ pc = "summed" /\ faults = 0 /\ edits > 0
    /\ currentInfo # NoInfo
    /\ currentInfo.mtime = initialInfo.mtime
    /\ currentInfo.size # initialInfo.size
    /\ err = "ErrSyncerChecksum" /\ checksumBytes = NoSum

-----------------------------------------------------------------------------
(* fileops.go: CreateDir and DeletePath, called one after the other on the  *)
(* trees of TestCreateDir and TestDeletePath                                *)

\* an empty directory; a file beside a directory that holds a file and a
\* nested directory with a file; a file at the top; a file beside a directory
FileopsTrees ==
    {EmptyTree,
     [EmptyTree EXCEPT ![P_d] = DirNode(0), ![P_da] = FileNode(Bytes(1), 0),
                       ![P_dds] = DirNode(0), ![P_ddsx] = FileNode(Bytes(2), 0),
                       ![P_bad] = FileNode(Bytes(3), 0)],
     [EmptyTree EXCEPT ![P_d] = FileNode(Bytes(1), 0)],
     [EmptyTree EXCEPT ![P_d] = DirNode(0), ![P_bad] = FileNode(Bytes(1), 0)]}

InitFileops ==
    /\ dst \in FileopsTrees
    /\ dst0 = dst
    /\ src = EmptyTree
    /\ pc = "fileops"
    /\ clock = 0 /\ err = "nil" /\ faults = 0 /\ chunkSize = 0
    /\ CopyIdle /\ RetryIdle /\ ScanIdle /\ CallIdle /\ MainArgs
    /\ state = NoState /\ sourceEntries = <<>> /\ actions = <<>> /\ actions2 = <<>>
    /\ idx = 0 /\ attempted = <<>> /\ saved = <<>> /\ loaded = NoState
    /\ prevFile = NoNode /\ runs = 0 /\ edits = 0
    /\ stack = <<>> /\ after = "idle"

\* one call DeletePath(name)
CallDeletePath ==
    /\ pc \in {"fileops", "DeletePath", "CreateDir"}
    /\ \E name \in TreePaths :
          /\ target' = name
          /\ \E o \in DeletePath(dst, name, CanFail) :
                /\ dst' = o.tree
                /\ err' = o.err
                /\ faults' = IF o.fault THEN faults + 1 ELSE faults
    /\ dst0' = dst
    /\ pc' = "DeletePath"
    /\ UNCHANGED <<src, clock, chunkSize, exclVars, argVars, retryVars, scanVars,
                   copyVars, runVars, initialInfo, currentInfo, hash, checksumBytes>>

\* one call CreateDir(name)
CallCreateDir ==
    /\ pc \in {"fileops", "DeletePath", "CreateDir"}
    /\ \E name \in TreePaths :
          /\ target' = name
          /\ \E o \in CreateDir(dst, name, CanFail) :
                /\ dst' = o.tree
                /\ err' = o.err
                /\ faults' = IF o.fault THEN faults + 1 ELSE faults
    /\ dst0' = dst
    /\ pc' = "CreateDir"
    /\ UNCHANGED <<src, clock, chunkSize, exclVars, argVars, retryVars, scanVars,
                   copyVars, runVars, initialInfo, currentInfo, hash, checksumBytes>>

NextFileops ==
    \/ CallDeletePath
    \/ CallCreateDir

SpecFileops == InitFileops /\ [][NextFileops]_vars

\* C36: a DeletePath call that meets no I/O failure, on a path that exists or
\* that PathExists reports as missing, returns no error and leaves a tree
\* without the path and without anything beneath it, every other path as it
\* was; on a missing path that is the tree it found, so a second DeletePath
\* of the same path succeeds and changes nothing.  A CreateDir call that
\* meets no I/O failure and finds no regular file on its way returns no
\* error and leaves the path and each of its ancestors a directory, every
\* other path as it was; on an existing directory the tree is unchanged.
C36_Step ==
    /\ (pc' = "DeletePath" /\ faults' = faults /\ PathExists(dst, target') # "ErrStat") =>
          /\ err' = "nil"
          /\ \A q \in TreePaths :
                dst'[q] = IF q = target' \/ IsUnder(q, target') THEN NoNode ELSE dst[q]
          /\ PathExists(dst, target') = "false" => dst' = dst
          /\ PathExists(dst', target') = "false"
    /\ (pc' = "DeletePath" /\ pc = "DeletePath" /\ target' = target /\ err = "nil"
            /\ faults' = faults) =>
          /\ err' = "nil" /\ dst' = dst
    /\ (pc' = "CreateDir" /\ faults' = faults
            /\ \A q \in Prefixes(target') : dst[q].kind # "file") =>
          /\ err' = "nil"
          /\ \A q \in Prefixes(target') : dst'[q].kind = "dir"
          /\ \A q \in TreePaths :
                (q \notin Prefixes(target') \/ dst[q].kind = "dir") => dst'[q] = dst[q]
          /\ dst[target'].kind = "dir" => dst' = dst

-----------------------------------------------------------------------------
(* syncer.go: ExecuteActions on its own, called with a list of CompareStates *)
(* in any order, or with such a list and an action of unknown kind          *)

\* kinds that are none of the four constants
UnknownKinds == {ActionNone - 1, ActionDelete + 1}

\* the lists with the same actions as list as, in every order
Reorderings(as) ==
    {[i \in DOMAIN as |-> as[o[i]]] : o \in Orders(DOMAIN as)}

\* list as with action a put in at position i
InsertAt(as, i, a) == SubSeq(as, 1, i - 1) \o <<a>> \o SubSeq(as, i, Len(as))

\* the snapshots ScanSource can return for tree t: the one of a walk that
\* meets no error, and the ones of a walk in which d.Info() failed for a
\* directory (lines 119-126: the entry is skipped, WalkDir still reads the
\* directory and the callback stores what is in it)
ExecScans(t) ==
    {ScanSource(t)}
    \cup {[p \in DOMAIN ScanSource(t) \ {q} |-> ScanSource(t)[p]] :
             q \in {r \in DOMAIN ScanSource(t) : ScanSource(t)[r].IsDir}}

\* the list CompareStates returns for one order of the two maps
CompareList(scan, old) ==
    CompareStates(scan, old,
                  CHOOSE o \in Orders(DOMAIN scan) : TRUE,
                  CHOOSE o \in Orders(DOMAIN old) : TRUE)

\* the destination of a run over the old source, the new source, its scan,
\* and the list to execute
InitExec ==
    /\ \E pr \in RerunPairs :
          /\ src = pr[2]
          /\ dst = Synced(pr[1])
          /\ state = [Version |-> 1, LastSync |-> OldMtime, Entries |-> ScanSource(pr[1])]
          /\ sourceEntries \in ExecScans(pr[2])
    /\ actions2 = CompareList(sourceEntries, state.Entries)
    /\ \/ actions \in Reorderings(actions2)
       \/ \E i \in 1..(Len(actions2) + 1), k \in UnknownKinds :
             actions = InsertAt(actions2, i, SyncAction(k, P_da, ZeroEntryInfo))
    /\ dst0 = dst
    /\ idx = 1 /\ attempted = <<>>
    /\ pc = "ExecuteActions"
    /\ clock = StartClock
    /\ err = "nil" /\ faults = 0 /\ chunkSize = RunChunk
    /\ CopyIdle /\ RetryIdle /\ ScanIdle /\ CallIdle /\ MainArgs
    /\ saved = <<>> /\ loaded = NoState
    /\ prevFile = NoNode /\ runs = 0 /\ edits = 0
    /\ stack = <<>> /\ after = "idle"

\* line 359: the range loop is over, return nil
ExecuteActionsReturns ==
    /\ pc = "ExecuteActions"
    /\ idx > Len(actions)
    /\ pc' = "done"
    /\ err' = "nil"
    /\ UNCHANGED <<src, dst, dst0, clock, faults, chunkSize, exclVars, argVars,
                   retryVars, scanVars, callVars, copyVars, runVars>>

NextExec ==
    \/ ExecuteAction
    \/ ExecuteActionsReturns

SpecExec == InitExec /\ [][NextExec]_vars

\* ExecuteActions(srcRoot, dstRoot, as) as one call that meets no I/O failure
RECURSIVE ExecuteActions(_, _, _)
ExecuteActions(s, t, as) ==
    IF as = <<>> THEN [err |-> "nil", tree |-> t]
    ELSE LET o == CHOOSE x \in Dispatch(Head(as), s, t, RunChunk, FALSE) : TRUE
         IN  IF o.err # "nil" THEN [err |-> o.err, tree |-> o.tree]
             ELSE ExecuteActions(s, o.tree, Tail(as))

\* C35: the step of ExecuteActions for a none action or for an action of a
\* kind that is none of the four leaves the destination as it is, returns no
\* error and goes on to the next action of the list.
C35_Step ==
    (pc = "ExecuteActions" /\ idx <= Len(actions)
        /\ actions[idx].Type \notin {ActionCreate, ActionUpdate, ActionDelete}) =>
        /\ dst' = dst
        /\ err' = "nil"
        /\ pc' = "ExecuteActions" /\ idx' = idx + 1

C35_NoneAndUnknownChangeNothing == [][C35_Step]_vars

\* the list began with an action of unknown kind; the creates after it were
\* carried out and the call returned nil
C35_Witness ==
    /\ pc = "done" /\ err = "nil"
    /\ Len(actions) = 3 /\ attempted = <<1, 2, 3>>
    /\ actions[1].Type \in UnknownKinds
    /\ dst0[P_da].kind = "none"
    /\ dst[P_da] = FileNode(src[P_da].data, 0)

\* C37: when ExecuteActions has returned nil, meeting no failure, for a list
\* that holds the actions of CompareStates in some order, the destination is
\* the one a failure-free ExecuteActions leaves for the same actions in any
\* other order.
C37_OrderDoesNotMatter ==
    (pc = "done" /\ err = "nil" /\ faults = 0 /\ actions \in Reorderings(actions2)) =>
        \A as \in Reorderings(actions2) :
            ExecuteActions(src, dst0, as).err = "nil" =>
                ExecuteActions(src, dst0, as).tree = dst

====
